---------------------------- MODULE Spec2Model ----------------------------
(***************************************************************************)
(* A model of the execution/accounting core of rs-platform:                *)
(*   - the storage-flag codec        (drive/src/drive/flags.rs)            *)
(*   - the fee-result algebra        (drive/src/fee/mod.rs)                *)
(*   - the transaction multiplexer   (node/src/lib.rs)                     *)
(* Each subsystem has its own specification (SpecFlags, SpecFee,           *)
(* SpecWorker); the variables of the other subsystems stay parked.         *)
(***************************************************************************)
EXTENDS Integers, Sequences, FiniteSets, TLC

VARIABLES
    \* storage-flag codec
    flags,          \* the StorageFlags value under test
    buffer,         \* serialize(flags): a sequence of bytes
    decoded,        \* StorageFlags::deserialize(buffer)
    codecPc,        \* "idle" | "input" | "serialized" | "deserialized"
    \* fee algebra: checked_add_assign on three FeeResult operands
    feeA, feeB, feeC,
    pairSums,       \* the outcomes of a += b, b += a, b += c, a += zero
    tripleSums,     \* the outcomes of (a + b) += c and a += (b + c)
    feePc,          \* "idle" | "input" | "pairs" | "triples"
    \* fee algebra: one call of calculate_fee
    calcBaseOps,        \* Option: the (cost, count) entries of the EnumMap
    calcDriveOps,       \* Option: the FeeResults of the drive operations
    calcResult,         \* what calculate_fee returned
    calcPc,             \* "idle" | "input" | "done"
    \* transaction multiplexer
    requests,       \* every call of a js_* function so far, in call order
    outcome,        \* per request: what has become of it
    queue,          \* the mpsc channel: indexes of requests, oldest first
    handled,        \* the indexes of the requests the worker took, in order
    worker,         \* "idle" | "running" | "closed" | "panicked"
    transactions,   \* the registry: address -> transaction
    grove,          \* the keys committed in the backend
    handles,        \* the PlatformWrapperTransactionAddress boxes given out
    finalised,      \* the transactions committed, rolled back or aborted
    ledger,         \* what the callers have asked for, per transaction
    \* epoch pools
    feePools,       \* Option: the fee-pools subtree, epoch key -> subtree
    epochCalls,     \* the init_empty / init_current / mark_as_paid calls made
    epochRead,      \* Option: the last read, made after the last of the calls
    \* uniqueness of documents by unique indices
    repository,     \* the documents the state repository holds
    batch,          \* the document transitions under validation
    transitionPos,  \* the position in batch of the transition being checked
    fetches,        \* the futures of that transition: meta, ready, result
    completionOrder,    \* the positions in fetches, in order of completion
    validationErrors,   \* validation_result.errors so far
    uniqPc,         \* "idle", "next", "fetching", "done", "failed", "committed"
    \* identity credit withdrawals
    identityStore,      \* identity id -> balance
    withdrawalQueue,    \* index -> the record enqueued under it
    applications,       \* the running applications of withdrawal transitions
    debited,            \* the applications whose update_identity went through
    \* drive operations
    driveState,         \* the contracts and documents the backend holds
    driveCall,          \* the call of apply_drive_operations and its outcome
    \* data contract validation
    rawDataContract,    \* Option: the contract handed to validate
    hashOrder,          \* the iteration order of the HashMap of line 141
    contractResult,     \* Option: the errors of the ValidationResult returned
    \* a second storage-flag value serialized next to the first
    flagsB,             \* the second StorageFlags value
    bufferB,            \* Option: serialize(flagsB)
    \* the worker thread seen one step finer: taking a message and returning
    \* from its handler are two steps
    handlersRunning,    \* the handlers that were entered and have not returned
    \* an identity key taken through its serialization
    identityKey,        \* Option: the IdentityKey
    keyBuffer,          \* Option: identityKey.serialize()
    keyResult           \* Option: IdentityKey::from_bytes(keyBuffer)

flagVars == <<flags, buffer, decoded, codecPc>>

feeVars == <<feeA, feeB, feeC, pairSums, tripleSums, feePc>>

calcVars == <<calcBaseOps, calcDriveOps, calcResult, calcPc>>

workerVars ==
    <<requests, outcome, queue, handled, worker, transactions, grove,
      handles, finalised, ledger>>

epochVars == <<feePools, epochCalls, epochRead>>

\* the variables of the subsystems added after the first four
uniqVars ==
    <<repository, batch, transitionPos, fetches, completionOrder,
      validationErrors, uniqPc>>

withdrawalVars == <<identityStore, withdrawalQueue, applications, debited>>

operationVars == <<driveState, driveCall>>

contractVars == <<rawDataContract, hashOrder, contractResult>>

pairVars == <<flagsB, bufferB>>

loopVars == <<handlersRunning>>

keyVars == <<identityKey, keyBuffer, keyResult>>

laterVars ==
    <<epochVars, uniqVars, withdrawalVars, operationVars, contractVars,
      pairVars, loopVars, keyVars>>

vars == <<flagVars, feeVars, calcVars, workerVars, laterVars>>

(***************************************************************************)
(* Fixed-width unsigned integers.  A u32 is four and a u64 eight 8-bit     *)
(* limbs, least significant first, so that every width is kept exactly.    *)
(***************************************************************************)
LimbBase == 256

Limb == 0..(LimbBase - 1)

U32Limbs == 4

U64Limbs == 8

\* the u32 / u64 whose value is the small number n < 256
U32(n) == <<n, 0, 0, 0>>

U64(n) == <<n, 0, 0, 0, 0, 0, 0, 0>>

U32Zero == U32(0)

U32Max == <<255, 255, 255, 255>>

U64Max == <<255, 255, 255, 255, 255, 255, 255, 255>>

\* propagate carries through raw limb sums; the result has Len(raw) limbs
\* (the callers size raw so that the last carry is 0)
RECURSIVE Normalise(_, _, _)
Normalise(raw, i, carry) ==
    IF i > Len(raw) THEN <<>>
    ELSE <<(raw[i] + carry) % LimbBase>>
         \o Normalise(raw, i + 1, (raw[i] + carry) \div LimbBase)

\* the exact sum of two n-limb numbers, as n + 1 limbs
AddWide(a, b) ==
    Normalise([i \in 1..(Len(a) + 1) |->
                 IF i <= Len(a) THEN a[i] + b[i] ELSE 0], 1, 0)

RECURSIVE ConvSum(_, _, _, _)
ConvSum(a, b, k, i) ==
    IF i > Len(a) THEN 0
    ELSE (IF k - i + 1 >= 1 /\ k - i + 1 <= Len(b)
          THEN a[i] * b[k - i + 1] ELSE 0) + ConvSum(a, b, k, i + 1)

\* the exact product of two n-limb numbers, as 2n limbs
MulWide(a, b) ==
    Normalise([k \in 1..(2 * Len(a)) |-> ConvSum(a, b, k, 1)], 1, 0)

\* does the wide number w fit in n limbs
Fits(w, n) == \A i \in (n + 1)..Len(w) : w[i] = 0

\* zero-extend the number a to n limbs
Widen(a, n) == [i \in 1..n |-> IF i <= Len(a) THEN a[i] ELSE 0]

\* Option / Result values
None == [kind |-> "None"]

Some(v) == [kind |-> "Some", val |-> v]

Err(e) == [kind |-> "Err", err |-> e]

(***************************************************************************)
(* Byte-level primitives used by the codec.                                *)
(***************************************************************************)
Byte == 0..255

\* u16::to_be_bytes
to_be_bytes(n) == <<n \div 256, n % 256>>

\* u16::from_be_bytes over data[offset..offset+2] (offset is 0-based)
from_be_bytes(data, offset) == data[offset + 1] * 256 + data[offset + 2]

\* data[from..] (0-based start) as a sequence
SliceFrom(data, from) == SubSeq(data, from + 1, Len(data))

\* n >> 7 on a u32
U32Shr7(n) ==
    [i \in 1..U32Limbs |->
        (n[i] \div 128) + (IF i < U32Limbs THEN (n[i + 1] % 128) * 2 ELSE 0)]

\* VarInt::encode_var_vec for u32 (LEB128): low 7 bits first, MSB = "more"
RECURSIVE encode_var_vec(_)
encode_var_vec(n) ==
    IF n[1] >= 128 \/ n[2] > 0 \/ n[3] > 0 \/ n[4] > 0
    THEN <<128 + (n[1] % 128)>> \o encode_var_vec(U32Shr7(n))
    ELSE <<n[1]>>

\* number of bytes VarInt::decode_var reads from src: up to the first byte
\* without the MSB, at most 10 (shift > 9 * 7), 0 when src is empty
RECURSIVE VarRead(_, _)
VarRead(src, i) ==
    IF i > Len(src) THEN i - 1
    ELSE IF src[i] < 128 \/ i * 7 > 63 THEN i
    ELSE VarRead(src, i + 1)

\* the 7-bit group of byte i of src (0 when beyond the bytes read)
VarGroup(src, used, i) == IF i <= used THEN src[i] % 128 ELSE 0

\* VarInt::decode_var for u32: the u64 accumulated from the 7-bit groups,
\* truncated to 32 bits ("n as u32"); None when no terminating byte was read
decode_var(src) ==
    LET used == VarRead(src, 1)
        low28 == VarGroup(src, used, 1) + VarGroup(src, used, 2) * 128
                 + VarGroup(src, used, 3) * 16384
                 + VarGroup(src, used, 4) * 2097152
        top4 == VarGroup(src, used, 5) % 16
    IN  IF used = 0 \/ src[used] >= 128
        THEN None
        ELSE Some([value |-> <<low28 % 256, (low28 \div 256) % 256,
                               (low28 \div 65536) % 256,
                               (low28 \div 16777216) + top4 * 16>>,
                   bytes_used |-> used])

(***************************************************************************)
(* StorageFlags (flags.rs).  A value is a record whose fields are exactly  *)
(* those of its variant.                                                   *)
(***************************************************************************)
SingleEpoch(base_epoch) ==
    [variant |-> "SingleEpoch", base_epoch |-> base_epoch]

MultiEpoch(base_epoch, epoch_map) ==
    [variant |-> "MultiEpoch", base_epoch |-> base_epoch,
     epoch_map |-> epoch_map]

SingleEpochOwned(base_epoch, owner_id) ==
    [variant |-> "SingleEpochOwned", base_epoch |-> base_epoch,
     owner_id |-> owner_id]

MultiEpochOwned(base_epoch, epoch_map, owner_id) ==
    [variant |-> "MultiEpochOwned", base_epoch |-> base_epoch,
     epoch_map |-> epoch_map, owner_id |-> owner_id]

HasEpochMap(f) == f.variant \in {"MultiEpoch", "MultiEpochOwned"}

HasOwner(f) == f.variant \in {"SingleEpochOwned", "MultiEpochOwned"}

type_byte(f) ==
    CASE f.variant = "SingleEpoch" -> 0
      [] f.variant = "MultiEpoch" -> 1
      [] f.variant = "SingleEpochOwned" -> 2
      [] f.variant = "MultiEpochOwned" -> 3

append_to_vec_base_epoch(f, buf) == buf \o to_be_bytes(f.base_epoch)

\* order: the sequence in which the hash map's iterator yields its keys
RECURSIVE AppendEpochEntries(_, _, _)
AppendEpochEntries(epoch_map, order, buf) ==
    IF order = <<>> THEN buf
    ELSE AppendEpochEntries(epoch_map, Tail(order),
             buf \o to_be_bytes(Head(order))
                 \o encode_var_vec(epoch_map[Head(order)]))

maybe_append_to_vec_epoch_map(f, order, buf) ==
    IF HasEpochMap(f) THEN AppendEpochEntries(f.epoch_map, order, buf)
    ELSE buf

maybe_append_to_vec_owner_id(f, buf) ==
    IF HasOwner(f) THEN buf \o f.owner_id ELSE buf

serialize(f, order) ==
    maybe_append_to_vec_epoch_map(f, order,
        append_to_vec_base_epoch(f,
            maybe_append_to_vec_owner_id(f, <<type_byte(f)>>)))

WrongSize == Err("StorageFlagsWrongSize")

deserialize_single_epoch(data) ==
    IF Len(data) # 3 THEN WrongSize
    ELSE Some(SingleEpoch(from_be_bytes(data, 1)))

\* the "while offset + 2 < len" loop shared by both multi-epoch decoders;
\* yields Some(bytes_per_epoch) or the error of a failed varint
RECURSIVE EpochMapLoop(_, _, _)
EpochMapLoop(data, offset, bytes_per_epoch) ==
    IF offset + 2 < Len(data)
    THEN LET epoch_index == from_be_bytes(data, offset)
             var == decode_var(SliceFrom(data, offset + 2))
         IN  IF var.kind = "None" THEN WrongSize
             ELSE EpochMapLoop(data, offset + 2 + var.val.bytes_used,
                      [e \in DOMAIN bytes_per_epoch \cup {epoch_index} |->
                          IF e = epoch_index THEN var.val.value
                          ELSE bytes_per_epoch[e]])
    ELSE Some(bytes_per_epoch)

EmptyMap == [e \in {} |-> U32Zero]

MultiEpochStartOffset == 3

deserialize_multi_epoch(data) ==
    IF Len(data) < 6 THEN WrongSize
    ELSE LET base_epoch == from_be_bytes(data, 1)
             m == EpochMapLoop(data, MultiEpochStartOffset, EmptyMap)
         IN  IF m.kind = "Err" THEN m
             ELSE Some(MultiEpoch(base_epoch, m.val))

deserialize_single_epoch_owned(data) ==
    IF Len(data) # 35 THEN WrongSize
    ELSE Some(SingleEpochOwned(from_be_bytes(data, 33), SubSeq(data, 2, 33)))

\* the owned decoder starts its loop at offset 3 as well (flags.rs:171)
MultiEpochOwnedStartOffset == 3

deserialize_multi_epoch_owned(data) ==
    IF Len(data) < 38 THEN WrongSize
    ELSE LET owner_id == SubSeq(data, 2, 33)
             base_epoch == from_be_bytes(data, 33)
             m == EpochMapLoop(data, MultiEpochOwnedStartOffset, EmptyMap)
         IN  IF m.kind = "Err" THEN m
             ELSE Some(MultiEpochOwned(base_epoch, m.val, owner_id))

\* Result<Option<StorageFlags>, Error>: Some(f), None or Err(e)
deserialize(data) ==
    IF Len(data) = 0 THEN None
    ELSE CASE data[1] = 0 -> deserialize_single_epoch(data)
           [] data[1] = 1 -> deserialize_multi_epoch(data)
           [] data[1] = 2 -> deserialize_single_epoch_owned(data)
           [] data[1] = 3 -> deserialize_multi_epoch_owned(data)
           [] OTHER -> Err("DeserializeUnknownStorageFlagsType")

(***************************************************************************)
(* Fee algebra (fee/mod.rs).                                               *)
(***************************************************************************)
\* u64::checked_add / u32::checked_add: None when the sum exceeds the width
checked_add(a, b) ==
    LET w == AddWide(a, b)
    IN  IF Fits(w, Len(a)) THEN Some(SubSeq(w, 1, Len(a))) ELSE None

\* u64::wrapping_mul in the place of checked_mul
wrapping_mul(a, b) == Some(SubSeq(MulWide(a, b), 1, Len(a)))

\* u64::checked_mul: None when the product exceeds the width
checked_mul(a, b) ==
    LET w == MulWide(a, b)
    IN  IF Fits(w, Len(a)) THEN Some(SubSeq(w, 1, Len(a))) ELSE None

EmptyIdentities == [id \in {} |-> EmptyMap]

\* FeeResult::default()
FeeResultDefault ==
    [storage_fee |-> U64(0),
     processing_fee |-> U64(0),
     removed_bytes_from_identities |-> EmptyIdentities,
     removed_bytes_from_system |-> U32(0)]

\* the ascending sequence of the keys of a BTreeMap
RECURSIVE SortedKeys(_)
SortedKeys(keys) ==
    IF keys = {} THEN <<>>
    ELSE LET least == CHOOSE k \in keys : \A other \in keys : k <= other
         IN  <<least>> \o SortedKeys(keys \ {least})

\* CombineIntMaps without ".chain(int_map_b)": the keys only rhs holds are lost
CombineIntMapsNoChain(sint_map_a, int_map_b) ==
    LET shared == DOMAIN sint_map_a \cap DOMAIN int_map_b
        combined == [k \in shared |-> checked_add(sint_map_a[k], int_map_b[k])]
    IN  IF \E k \in shared : combined[k].kind = "None"
        THEN None
        ELSE Some([k \in DOMAIN sint_map_a |->
                      IF k \in shared THEN combined[k].val
                      ELSE sint_map_a[k]])

\* lines 111-123: sint_map_a is walked, each of its values is added to the
\* value int_map_b holds (and gives up) for the same key; what is left of
\* int_map_b is chained behind.  None when one of the additions overflows.
CombineIntMaps(sint_map_a, int_map_b) ==
    LET shared == DOMAIN sint_map_a \cap DOMAIN int_map_b
        rest_of_b == DOMAIN int_map_b \ shared
        combined == [k \in shared |-> checked_add(sint_map_a[k], int_map_b[k])]
        intersection ==
            [k \in DOMAIN sint_map_a |->
                IF k \in shared THEN combined[k].val ELSE sint_map_a[k]]
    IN  IF \E k \in shared : combined[k].kind = "None"
        THEN None
        ELSE Some([k \in DOMAIN sint_map_a \cup rest_of_b |->
                      IF k \in DOMAIN sint_map_a THEN intersection[k]
                      ELSE int_map_b[k]])

MapRemove(m, key) == [k \in DOMAIN m \ {key} |-> m[k]]

MapInsert(m, key, value) ==
    [k \in DOMAIN m \cup {key} |-> IF k = key THEN value ELSE m[k]]

\* lines 106-130: the loop over rhs.removed_bytes_from_identities in key
\* order.  identities is self's map as the loop has left it so far; on an
\* overflow the entry just removed from it is not put back.
RECURSIVE MergeIdentities(_, _, _)
MergeIdentities(identities, rhs_identities, ids) ==
    IF ids = <<>> THEN [kind |-> "Ok", identities |-> identities]
    ELSE LET identifier == Head(ids)
             int_map_b == rhs_identities[identifier]
         IN  IF identifier \in DOMAIN identities
             THEN LET merged == CombineIntMaps(identities[identifier],
                                               int_map_b)
                      removed == MapRemove(identities, identifier)
                  IN  IF merged.kind = "None"
                      THEN [kind |-> "Err", identities |-> removed]
                      ELSE MergeIdentities(
                               MapInsert(removed, identifier, merged.val),
                               rhs_identities, Tail(ids))
             ELSE MergeIdentities(
                      MapInsert(identities, identifier, int_map_b),
                      rhs_identities, Tail(ids))

AddResult(kind, err, self) == [kind |-> kind, err |-> err, self |-> self]

\* FeeResult::checked_add_assign(&mut self, rhs): the Result it returns and
\* the value it leaves in self
checked_add_assign(self, rhs) ==
    LET storage == checked_add(self.storage_fee, rhs.storage_fee)
        self1 == [self EXCEPT !.storage_fee = storage.val]
        processing == checked_add(self.processing_fee, rhs.processing_fee)
        self2 == [self1 EXCEPT !.processing_fee = processing.val]
        merged == MergeIdentities(self.removed_bytes_from_identities,
                      rhs.removed_bytes_from_identities,
                      SortedKeys(DOMAIN rhs.removed_bytes_from_identities))
        self3 == [self2 EXCEPT
                     !.removed_bytes_from_identities = merged.identities]
        system == checked_add(self.removed_bytes_from_system,
                              rhs.removed_bytes_from_system)
        self4 == [self3 EXCEPT !.removed_bytes_from_system = system.val]
    IN  IF storage.kind = "None"
        THEN AddResult("Err", "storage fee overflow error", self)
        ELSE IF processing.kind = "None"
        THEN AddResult("Err", "processing fee overflow error", self1)
        ELSE IF merged.kind = "Err"
        THEN AddResult("Err", "storage fee overflow error", self3)
        ELSE IF system.kind = "None"
        THEN AddResult("Err", "removed_bytes_from_system overflow error",
                       self3)
        ELSE AddResult("Ok", "", self4)

\* lines 72-82: the loop over the base operations, each entry carrying the
\* cost of its BaseOp and its count; None on the first overflow
RECURSIVE BaseOperationsLoop(_, _)
BaseOperationsLoop(base_operations, processing_fee) ==
    IF base_operations = <<>> THEN Some(processing_fee)
    ELSE LET cost == checked_mul(Head(base_operations).cost,
                                 Head(base_operations).count)
             value == checked_add(processing_fee, cost.val)
         IN  IF cost.kind = "None" THEN None
             ELSE IF value.kind = "None" THEN None
             ELSE BaseOperationsLoop(Tail(base_operations), value.val)

\* lines 84-89: the loop over the fee results of the drive operations
RECURSIVE DriveOperationsLoop(_, _)
DriveOperationsLoop(drive_fee_results, aggregate_fee_result) ==
    IF drive_fee_results = <<>>
    THEN AddResult("Ok", "", aggregate_fee_result)
    ELSE LET added == checked_add_assign(aggregate_fee_result,
                                         Head(drive_fee_results))
         IN  IF added.kind = "Err" THEN added
             ELSE DriveOperationsLoop(Tail(drive_fee_results), added.self)

\* calculate_fee: base_operations and drive_operations are Option values;
\* drive_operations holds the FeeResults consume_to_fees yields for them.
\* Ok(FeeResult) or Err(Fee(Overflow(..)))
calculate_fee(base_operations, drive_operations) ==
    LET base == IF base_operations.kind = "Some"
                THEN BaseOperationsLoop(base_operations.val,
                                        FeeResultDefault.processing_fee)
                ELSE Some(FeeResultDefault.processing_fee)
        after_base == [FeeResultDefault EXCEPT !.processing_fee = base.val]
        drive == IF drive_operations.kind = "Some"
                 THEN DriveOperationsLoop(drive_operations.val, after_base)
                 ELSE AddResult("Ok", "", after_base)
    IN  IF base.kind = "None" THEN [kind |-> "Err", err |-> "overflow error"]
        ELSE IF drive.kind = "Err" THEN [kind |-> "Err", err |-> drive.err]
        ELSE [kind |-> "Ok", val |-> drive.self]

(***************************************************************************)
(* Transaction multiplexer (node/src/lib.rs).                              *)
(*                                                                         *)
(* Addresses.  StartTransaction keys the registry by the address of its    *)
(* local variable (a slot of the worker's stack frame, lines 128-135) and  *)
(* hands the callback a reference to the value inside the HashMap (line    *)
(* 139), whose address js_grove_db_start_transaction boxes as the id       *)
(* (lines 887-893).  Which slot and which bucket is up to the build and    *)
(* the allocator; a live stack frame and a live heap block never overlap.  *)
(***************************************************************************)
StackAddrs == {"stack1", "stack2"}

HeapAddrs == {"heap1", "heap2"}

NoTx == "undefined"

Callers == {"A", "B"}

Keys == {"K"}

NoTransactions == [a \in {} |-> [txn |-> 0, writes |-> {}]]

\* mpsc::Sender::send: Err(SendError) once the receiver has been dropped,
\* otherwise the message is appended to the channel
send(chan, rx_alive, message) ==
    IF rx_alive THEN [ok |-> TRUE, chan |-> Append(chan, message)]
    ELSE [ok |-> FALSE, chan |-> chan]

\* rx.recv() taking the newest message instead of the oldest
recv_newest(chan) ==
    [message |-> chan[Len(chan)], chan |-> SubSeq(chan, 1, Len(chan) - 1)]

\* rx.recv() of the worker loop (line 104): the oldest message
recv(chan) == [message |-> Head(chan), chan |-> Tail(chan)]

\* HashMap::get
RegistryGet(registry, address) ==
    IF address \in DOMAIN registry THEN Some(registry[address]) ELSE None

\* what has become of a request
Outcome(state, reply) ==
    [state |-> state, reply |-> reply, expect |-> "", found |-> FALSE]

\* accepted by the channel, not yet taken by the worker
Queued == Outcome("queued", "")

\* the js_* function threw the SendError
Rejected == Outcome("rejected", "SendError")

\* the completion callback has been sent to the JS channel with this reply
Replied(reply) == Outcome("replied", reply)

\* the handler panicked: the completion callback was dropped unrun
Panicked == Outcome("panicked", "")

\* still in the channel when the receiver was dropped
Dropped == Outcome("dropped", "")

CloseSubmitted == \E i \in 1..Len(requests) : requests[i].kind = "Close"

MaxRequests == 3

\* the body shared by the js_* functions: build the message, send it, and
\* throw the SendError as a JS error when the channel is closed
Submit(caller, kind, id, txn, key) ==
    /\ worker # "idle"
    /\ Len(requests) < MaxRequests
    /\ LET sent == send(queue, worker = "running", Len(requests) + 1)
       IN  /\ requests' = Append(requests,
                  [caller |-> caller, kind |-> kind, id |-> id, txn |-> txn,
                   key |-> key, afterClose |-> CloseSubmitted,
                   queuedBehind |-> Len(queue)])
           /\ queue' = sent.chan
           /\ outcome' = Append(outcome,
                                IF sent.ok THEN Queued ELSE Rejected)
    /\ UNCHANGED <<handled, worker, transactions, grove, handles,
                   finalised, ledger>>

\* the boxes a caller can pass as its transaction argument
HandlesOf(caller) == {h \in handles : h.caller = caller}

JsClose(caller) == Submit(caller, "Close", NoTx, 0, "")

JsFlush(caller) == Submit(caller, "Flush", NoTx, 0, "")

JsStartTransaction(caller) == Submit(caller, "StartTransaction", NoTx, 0, "")

JsCommitTransaction(caller) ==
    \E h \in HandlesOf(caller) :
        Submit(caller, "CommitTransaction", h.id, h.txn, "")

JsRollbackTransaction(caller) ==
    \E h \in HandlesOf(caller) :
        Submit(caller, "RollbackTransaction", h.id, h.txn, "")

JsAbortTransaction(caller) ==
    \E h \in HandlesOf(caller) :
        Submit(caller, "AbortTransaction", h.id, h.txn, "")

\* js_grove_db_get with or without the transaction argument
JsGet(caller) ==
    \E key \in Keys :
        \/ Submit(caller, "Get", NoTx, 0, key)
        \/ \E h \in HandlesOf(caller) : Submit(caller, "Get", h.id, h.txn, key)

\* js_grove_db_insert with or without the transaction argument
JsInsert(caller) ==
    \E key \in Keys :
        \/ Submit(caller, "Insert", NoTx, 0, key)
        \/ \E h \in HandlesOf(caller) :
              Submit(caller, "Insert", h.id, h.txn, key)

(***************************************************************************)
(* The worker loop (lines 104-186).  Every handler takes the oldest        *)
(* message off the channel and runs to its end in one step.                *)
(***************************************************************************)
Taken == recv(queue)

Current == requests[Taken.message]

CanTake(kinds) ==
    /\ worker = "running"
    /\ queue # <<>>
    /\ Current.kind \in kinds

SetOutcome(i, o) == [outcome EXCEPT ![i] = o]

\* a panic unwinds the worker thread: the receiver is dropped with the
\* messages still in it, and none of their callbacks runs.  The registry
\* lives on in the Arc clones the boxes hold.
PanicAt(i) ==
    /\ worker' = "panicked"
    /\ queue' = <<>>
    /\ outcome' = [j \in 1..Len(outcome) |->
                      IF j = i THEN Panicked
                      ELSE IF j \in {Taken.chan[n] : n \in 1..Len(Taken.chan)}
                      THEN Dropped
                      ELSE outcome[j]]

\* the worker goes on with the next message
ReplyAt(i, o) ==
    /\ worker' = "running"
    /\ queue' = Taken.chan
    /\ outcome' = SetOutcome(i, o)

\* what the callers have asked for so far: the keys written outside any
\* transaction or by a transaction whose commit was handled, and the keys
\* written under each transaction not yet finalised
LedgerInsert(txn, key) ==
    IF txn = 0
    THEN [ledger EXCEPT !.committed = @ \cup {key}]
    ELSE [ledger EXCEPT !.pending =
             [t \in DOMAIN @ \cup {txn} |->
                 IF t = txn
                 THEN (IF t \in DOMAIN @ THEN @[t] ELSE {}) \cup {key}
                 ELSE @[t]]]

LedgerPending(txn) ==
    IF txn \in DOMAIN ledger.pending THEN ledger.pending[txn] ELSE {}

LedgerCommit(txn) ==
    [committed |-> ledger.committed \cup LedgerPending(txn),
     pending |-> [t \in DOMAIN ledger.pending \ {txn} |-> ledger.pending[t]]]

LedgerDiscard(txn) ==
    [ledger EXCEPT !.pending = [t \in DOMAIN @ \ {txn} |-> @[t]]]

\* Callback (lines 106-111) running the closure of js_grove_db_get (lines
\* 1048-1060) or js_grove_db_insert (lines 1115-1128)
HandleCallback ==
    /\ CanTake({"Get", "Insert"})
    /\ handled' = Append(handled, Taken.message)
    /\ LET i == Taken.message
           m == Current
           tx == RegistryGet(transactions, m.id)
           visible == IF tx.kind = "Some" THEN grove \cup tx.val.writes
                      ELSE grove
           expected == IF m.key \in ledger.committed
                          \/ (m.txn # 0 /\ m.key \in LedgerPending(m.txn))
                       THEN "Value" ELSE "NotFound"
       IN  IF m.id = NoTx
           THEN \* .expect("transaction address should be available")
                /\ PanicAt(i)
                /\ UNCHANGED <<transactions, grove>>
                /\ ledger' = IF m.kind = "Insert"
                             THEN LedgerInsert(m.txn, m.key) ELSE ledger
           ELSE IF m.kind = "Get"
           THEN /\ ReplyAt(i, [Replied(IF m.key \in visible
                                       THEN "Value" ELSE "NotFound")
                                  EXCEPT !.expect = expected,
                                         !.found = tx.kind = "Some"])
                /\ UNCHANGED <<transactions, grove, ledger>>
           ELSE /\ ReplyAt(i, [Replied("Ok") EXCEPT
                                  !.found = tx.kind = "Some"])
                /\ IF tx.kind = "Some"
                   THEN /\ transactions' =
                              [transactions EXCEPT ![m.id].writes =
                                  @ \cup {m.key}]
                        /\ grove' = grove
                   ELSE /\ grove' = grove \cup {m.key}
                        /\ transactions' = transactions
                /\ ledger' = LedgerInsert(m.txn, m.key)
    /\ UNCHANGED <<requests, handles, finalised>>

\* Close (lines 113-119): drop the worker's Arc and the platform, run the
\* callback, leave the loop; the receiver goes with the thread
HandleClose ==
    /\ CanTake({"Close"})
    /\ handled' = Append(handled, Taken.message)
    /\ worker' = "closed"
    /\ queue' = <<>>
    /\ outcome' = [j \in 1..Len(outcome) |->
                      IF j = Taken.message THEN Replied("Ok")
                      ELSE IF j \in {Taken.chan[n] : n \in 1..Len(Taken.chan)}
                      THEN Dropped
                      ELSE outcome[j]]
    /\ UNCHANGED <<requests, transactions, grove, handles, finalised, ledger>>

\* Flush (lines 121-124): flush().unwrap()
HandleFlush ==
    /\ CanTake({"Flush"})
    /\ handled' = Append(handled, Taken.message)
    /\ \E flushed \in BOOLEAN :
          IF flushed THEN ReplyAt(Taken.message, Replied("Ok"))
          ELSE PanicAt(Taken.message)
    /\ UNCHANGED <<requests, transactions, grove, handles, finalised, ledger>>

NextTxn == Cardinality(handles) + 1

\* StartTransaction (lines 125-142) running the closure of
\* js_grove_db_start_transaction (lines 886-907)
HandleStartTransaction ==
    /\ CanTake({"StartTransaction"})
    /\ handled' = Append(handled, Taken.message)
    /\ \E transaction_raw_pointer_address \in StackAddrs,
          boxed_address \in HeapAddrs :
          /\ transactions' =
                MapInsert(transactions, transaction_raw_pointer_address,
                          [txn |-> NextTxn, writes |-> {}])
          /\ handles' = handles \cup
                {[id |-> boxed_address, txn |-> NextTxn,
                  caller |-> Current.caller]}
          /\ ReplyAt(Taken.message, Replied(boxed_address))
    /\ UNCHANGED <<requests, grove, finalised, ledger>>

\* CommitTransaction (lines 143-156): commit_transaction(..).unwrap() when
\* the address is a key of the registry, the callback in either case
HandleCommitTransaction ==
    /\ CanTake({"CommitTransaction"})
    /\ handled' = Append(handled, Taken.message)
    /\ LET i == Taken.message
           m == Current
           tx == RegistryGet(transactions, m.id)
       IN  IF tx.kind = "Some"
           THEN /\ transactions' = MapRemove(transactions, m.id)
                /\ finalised' = finalised \cup {tx.val.txn}
                /\ \E committed \in BOOLEAN :
                      IF committed
                      THEN /\ grove' = grove \cup tx.val.writes
                           /\ ReplyAt(i, [Replied("Ok") EXCEPT
                                             !.found = TRUE])
                      ELSE /\ grove' = grove
                           /\ PanicAt(i)
           ELSE /\ ReplyAt(i, Replied("Ok"))
                /\ UNCHANGED <<transactions, grove, finalised>>
    /\ ledger' = LedgerCommit(Current.txn)
    /\ UNCHANGED <<requests, handles>>

\* RollbackTransaction (lines 157-170): rollback_transaction(..).unwrap()
HandleRollbackTransaction ==
    /\ CanTake({"RollbackTransaction"})
    /\ handled' = Append(handled, Taken.message)
    /\ LET i == Taken.message
           m == Current
           tx == RegistryGet(transactions, m.id)
       IN  IF tx.kind = "Some"
           THEN /\ transactions' = MapRemove(transactions, m.id)
                /\ finalised' = finalised \cup {tx.val.txn}
                /\ \E rolled_back \in BOOLEAN :
                      IF rolled_back
                      THEN ReplyAt(i, [Replied("Ok") EXCEPT !.found = TRUE])
                      ELSE PanicAt(i)
           ELSE /\ ReplyAt(i, Replied("Ok"))
                /\ UNCHANGED <<transactions, finalised>>
    /\ ledger' = LedgerDiscard(Current.txn)
    /\ UNCHANGED <<requests, grove, handles>>

\* AbortTransaction (lines 171-184): drop the transaction if there is one
HandleAbortTransaction ==
    /\ CanTake({"AbortTransaction"})
    /\ handled' = Append(handled, Taken.message)
    /\ LET i == Taken.message
           m == Current
           tx == RegistryGet(transactions, m.id)
       IN  IF tx.kind = "Some"
           THEN /\ transactions' = MapRemove(transactions, m.id)
                /\ finalised' = finalised \cup {tx.val.txn}
                /\ ReplyAt(i, [Replied("Ok") EXCEPT !.found = TRUE])
           ELSE /\ ReplyAt(i, Replied("Ok"))
                /\ UNCHANGED <<transactions, finalised>>
    /\ ledger' = LedgerDiscard(Current.txn)
    /\ UNCHANGED <<requests, grove, handles>>

NoLedger == [committed |-> {}, pending |-> [t \in {} |-> {}]]

WorkerParked ==
    /\ requests = <<>>
    /\ outcome = <<>>
    /\ queue = <<>>
    /\ handled = <<>>
    /\ worker = "idle"
    /\ transactions = NoTransactions
    /\ grove = {}
    /\ handles = {}
    /\ finalised = {}
    /\ ledger = NoLedger

\* PlatformWrapper::new (lines 75-190): the channel, the spawned worker
\* with an empty registry
WorkerInit ==
    /\ requests = <<>>
    /\ outcome = <<>>
    /\ queue = <<>>
    /\ handled = <<>>
    /\ worker = "running"
    /\ transactions = NoTransactions
    /\ grove = {}
    /\ handles = {}
    /\ finalised = {}
    /\ ledger = NoLedger

(***************************************************************************)
(* Inputs of the codec specification.                                      *)
(***************************************************************************)
MaxEpochKeys == 2

BaseEpochValues == {0, 7, 65535}

\* epoch indexes whose two bytes are both non-zero: 0x0101, 0x0202, ...
EpochKeys == {257 * k : k \in 1..MaxEpochKeys}

BytesAddedValues == {U32(0), U32(1), <<44, 1, 0, 0>>, U32Max}

OwnerIds == {[i \in 1..32 |-> 17], [i \in 1..32 |-> 0]}

EpochMaps ==
    UNION {[ks -> BytesAddedValues] : ks \in SUBSET EpochKeys}

StorageFlagsValues ==
    {SingleEpoch(b) : b \in BaseEpochValues}
    \cup {MultiEpoch(b, m) : b \in BaseEpochValues, m \in EpochMaps}
    \cup {SingleEpochOwned(b, o) : b \in BaseEpochValues, o \in OwnerIds}
    \cup {MultiEpochOwned(b, m, o) :
            b \in BaseEpochValues, m \in EpochMaps, o \in OwnerIds}

\* every order in which an iterator can yield the keys of a map
Orders(keys) ==
    {o \in [1..Cardinality(keys) -> keys] :
        \A i, j \in 1..Cardinality(keys) : i # j => o[i] # o[j]}

NoFlags == [variant |-> "none"]

FlagsParked ==
    /\ flags = NoFlags
    /\ buffer = <<>>
    /\ decoded = None
    /\ codecPc = "idle"

FlagsInit ==
    /\ flags \in StorageFlagsValues
    /\ buffer = <<>>
    /\ decoded = None
    /\ codecPc = "input"

Serialize ==
    /\ codecPc = "input"
    /\ \E order \in Orders(IF HasEpochMap(flags)
                           THEN DOMAIN flags.epoch_map ELSE {}) :
          buffer' = serialize(flags, order)
    /\ codecPc' = "serialized"
    /\ UNCHANGED <<flags, decoded>>

Deserialize ==
    /\ codecPc = "serialized"
    /\ decoded' = deserialize(buffer)
    /\ codecPc' = "deserialized"
    /\ UNCHANGED <<flags, buffer>>

(***************************************************************************)
(* Inputs and actions of the fee-algebra specifications.                   *)
(***************************************************************************)
U64MaxMinus5 == <<250, 255, 255, 255, 255, 255, 255, 255>>

Identifiers == {1, 2}

\* the per-epoch maps an identity can come with
IntMapValues ==
    {[e \in {0} |-> U32(1)], [e \in {1} |-> U32(1)], [e \in {0} |-> U32Max]}

IdentitiesValues ==
    UNION {[ids -> IntMapValues] : ids \in SUBSET Identifiers}

\* <<storage_fee, processing_fee, removed_bytes_from_system>>
ScalarValues ==
    {<<U64(5), U64(1), U32(1)>>,
     <<U64MaxMinus5, U64(1), U32(1)>>,
     <<U64(5), U64Max, U32(1)>>,
     <<U64(5), U64(1), U32Max>>}

FeeResultOf(scalars, identities) ==
    [storage_fee |-> scalars[1],
     processing_fee |-> scalars[2],
     removed_bytes_from_identities |-> identities,
     removed_bytes_from_system |-> scalars[3]]

FeeResultValues ==
    {FeeResultOf(sc, ids) : sc \in ScalarValues, ids \in IdentitiesValues}

NotRun == AddResult("NotRun", "", FeeResultDefault)

NoPairSums == [ab |-> NotRun, ba |-> NotRun, bc |-> NotRun, aZero |-> NotRun]

NoTripleSums == [ab_c |-> NotRun, a_bc |-> NotRun]

FeeParked ==
    /\ feeA = FeeResultDefault
    /\ feeB = FeeResultDefault
    /\ feeC = FeeResultDefault
    /\ pairSums = NoPairSums
    /\ tripleSums = NoTripleSums
    /\ feePc = "idle"

FeeInit ==
    /\ feeA \in FeeResultValues
    /\ feeB \in FeeResultValues
    /\ feeC \in FeeResultValues
    /\ pairSums = NoPairSums
    /\ tripleSums = NoTripleSums
    /\ feePc = "input"

\* a += b, b += a, b += c and a += FeeResult::default(), each on a fresh copy
AddPairs ==
    /\ feePc = "input"
    /\ pairSums' = [ab |-> checked_add_assign(feeA, feeB),
                    ba |-> checked_add_assign(feeB, feeA),
                    bc |-> checked_add_assign(feeB, feeC),
                    aZero |-> checked_add_assign(feeA, FeeResultDefault)]
    /\ feePc' = "pairs"
    /\ UNCHANGED <<feeA, feeB, feeC, tripleSums>>

\* (a + b) += c and a += (b + c), where the inner sum did not overflow
AddTriples ==
    /\ feePc = "pairs"
    /\ tripleSums' =
          [ab_c |-> IF pairSums.ab.kind = "Ok"
                    THEN checked_add_assign(pairSums.ab.self, feeC)
                    ELSE NotRun,
           a_bc |-> IF pairSums.bc.kind = "Ok"
                    THEN checked_add_assign(feeA, pairSums.bc.self)
                    ELSE NotRun]
    /\ feePc' = "triples"
    /\ UNCHANGED <<feeA, feeB, feeC, pairSums>>

MaxBaseOps == 2

MaxDriveOps == 2

\* (cost of the BaseOp, count) entries: products that vanish, stay small,
\* reach u64::MAX exactly, and exceed it
BaseOpEntries ==
    {[cost |-> U64(0), count |-> U64Max],
     [cost |-> U64(3), count |-> U64(2)],
     [cost |-> U64(3), count |-> <<0, 0, 0, 0, 1, 0, 0, 0>>],
     [cost |-> U64(1), count |-> U64Max],
     [cost |-> <<0, 0, 0, 0, 1, 0, 0, 0>>, count |-> <<0, 0, 0, 0, 1, 0, 0, 0>>]}

\* fee results of the drive operations: each scalar field near its maximum
\* in turn, and per-identity refunds that do and do not fit when added
DriveFeeValues ==
    {FeeResultOf(sc, EmptyIdentities) : sc \in ScalarValues}
      \cup {FeeResultOf(<<U64(5), U64(1), U32(1)>>,
                        [id \in {1} |-> [e \in {0} |-> v]]) :
                v \in {U32(1), U32Max}}

SeqsUpTo(S, n) == UNION {[1..k -> S] : k \in 0..n}

CalcParked ==
    /\ calcBaseOps = None
    /\ calcDriveOps = None
    /\ calcResult = None
    /\ calcPc = "idle"

CalcInit ==
    /\ calcBaseOps \in
          {None} \cup {Some(ops) : ops \in SeqsUpTo(BaseOpEntries, MaxBaseOps)}
    /\ calcDriveOps \in
          {None} \cup {Some(rs) : rs \in SeqsUpTo(DriveFeeValues, MaxDriveOps)}
    /\ calcResult = None
    /\ calcPc = "input"

CalculateFee ==
    /\ calcPc = "input"
    /\ calcResult' = calculate_fee(calcBaseOps, calcDriveOps)
    /\ calcPc' = "done"
    /\ UNCHANGED <<calcBaseOps, calcDriveOps>>

(***************************************************************************)
(* Epoch pools (drive/src/fee/pools/epoch/epoch_pool.rs).  feePools is the *)
(* fee-pools subtree of GroveDB: absent, or a map from the key of an epoch *)
(* to the subtree of that epoch, itself a map from item key to element.    *)
(***************************************************************************)
RECURSIVE IntToLe(_, _)
\* the w low bytes of the non-negative number n, least significant first
IntToLe(n, w) ==
    IF w = 0 THEN <<>> ELSE <<n % 256>> \o IntToLe(n \div 256, w - 1)

RECURSIVE LeToInt(_)
\* the number whose bytes are b, least significant first
LeToInt(b) == IF b = <<>> THEN 0 ELSE b[1] + 256 * LeToInt(Tail(b))

Reverse(s) == [i \in 1..Len(s) |-> s[Len(s) + 1 - i]]

\* u16::to_le_bytes
to_le_bytes(n) == <<n % 256, n \div 256>>

\* u64::to_le_bytes / u64::from_le_bytes
u64_to_le_bytes(n) == IntToLe(n, U64Limbs)

u64_from_le_bytes(b) == LeToInt(b)

\* i64::to_le_bytes: two's complement
i64_to_le_bytes(n) ==
    IF n >= 0 THEN IntToLe(n, U64Limbs)
    ELSE [i \in 1..U64Limbs |-> 255 - IntToLe(-(n + 1), U64Limbs)[i]]

\* i64::from_le_bytes
i64_from_le_bytes(b) ==
    IF b[U64Limbs] < 128 THEN LeToInt(b)
    ELSE -LeToInt([i \in 1..U64Limbs |-> 255 - b[i]]) - 1

\* EpochPool::new (lines 17-23)
EpochPoolNew(index) == [index |-> index, key |-> to_le_bytes(index)]

\* Epoch::new (fee_pools/epochs/mod.rs, lines 15-20)
EpochNew(index) == [index |-> index, key |-> to_be_bytes(index)]

\* Element::Item(bytes, None) and Element::empty_tree()
Item(bytes) == [type |-> "Item", value |-> bytes]

EmptyTree == [type |-> "Tree"]

\* an epoch subtree without elements
EmptySubtree == [k \in {} |-> EmptyTree]

KEY_START_TIME == "KEY_START_TIME"

KEY_START_BLOCK_HEIGHT == "KEY_START_BLOCK_HEIGHT"

KEY_PROPOSERS == "KEY_PROPOSERS"

KEY_STORAGE_FEE == "KEY_STORAGE_FEE"

KEY_PROCESSING_FEE == "KEY_PROCESSING_FEE"

KEY_FEE_MULTIPLIER == "KEY_FEE_MULTIPLIER"

\* the outcome of a call on the tree: the tree is left as the call left it,
\* also when a later step of the call failed
GroveOk(g) == [kind |-> "Ok", grove |-> g]

GroveErr(e, g) == [kind |-> "Err", err |-> e, grove |-> g]

\* does the subtree at path exist: <<>> is FeePools::get_path(), <<key>> the
\* path of an epoch (get_path, lines 73-75)
PathExists(g, path) ==
    /\ g.kind = "Some"
    /\ path # <<>> => path[1] \in DOMAIN g.val

\* grove.insert of a tree at FeePools::get_path().  Over an existing subtree
\* the elements under it either stay reachable or are gone (keep).
grove_insert_tree(g, key, keep) ==
    IF ~PathExists(g, <<>>) THEN GroveErr("InvalidPath", g)
    ELSE GroveOk(Some(MapInsert(g.val, key,
                      IF key \in DOMAIN g.val /\ keep
                      THEN g.val[key] ELSE EmptySubtree)))

\* an insert that creates the subtree of the epoch when it is missing
grove_insert_creating_path(g, path, key, element) ==
    IF ~PathExists(g, <<>>) THEN GroveErr("InvalidPath", g)
    ELSE GroveOk(Some(MapInsert(g.val, path[1],
                      MapInsert(IF path[1] \in DOMAIN g.val
                                THEN g.val[path[1]] ELSE EmptySubtree,
                                key, element))))

\* grove.insert of an element into the subtree of an epoch
grove_insert(g, path, key, element) ==
    IF ~PathExists(g, path) THEN GroveErr("InvalidPath", g)
    ELSE GroveOk(Some([g.val EXCEPT ![path[1]] = MapInsert(@, key, element)]))

\* grove.get from the subtree of an epoch
grove_get(g, path, key) ==
    IF ~PathExists(g, path) THEN Err("PathNotFound")
    ELSE IF key \notin DOMAIN g.val[path[1]] THEN Err("PathKeyNotFound")
    ELSE [kind |-> "Ok", val |-> g.val[path[1]][key]]

\* grove.delete from the subtree of an epoch
grove_delete(g, path, key) ==
    IF ~PathExists(g, path) \/ key \notin DOMAIN g.val[path[1]]
    THEN GroveErr("PathKeyNotFound", g)
    ELSE GroveOk(Some([g.val EXCEPT ![path[1]] = MapRemove(@, key)]))

\* update_start_time that writes under the key of the start block height
update_start_time_at_height_key(g, pool, time) ==
    grove_insert(g, <<pool.key>>, KEY_START_BLOCK_HEIGHT,
                 Item(i64_to_le_bytes(time)))

\* update_start_time (lines 85-97)
update_start_time(g, pool, time) ==
    grove_insert(g, <<pool.key>>, KEY_START_TIME, Item(i64_to_le_bytes(time)))

\* get_start_time (lines 99-125)
get_start_time(g, pool) ==
    LET element == grove_get(g, <<pool.key>>, KEY_START_TIME)
    IN  IF element.kind = "Err" THEN element
        ELSE IF element.val.type = "Item"
        THEN IF Len(element.val.value) = U64Limbs
             THEN [kind |-> "Ok", val |-> i64_from_le_bytes(element.val.value)]
             ELSE Err("CorruptedFirstProposedBlockHeightItemLength")
        ELSE Err("CorruptedFirstProposedBlockHeightNotItem")

\* get_start_block_height (lines 127-153)
get_start_block_height(g, pool) ==
    LET element == grove_get(g, <<pool.key>>, KEY_START_BLOCK_HEIGHT)
    IN  IF element.kind = "Err" THEN element
        ELSE IF element.val.type = "Item"
        THEN IF Len(element.val.value) = U64Limbs
             THEN [kind |-> "Ok", val |-> u64_from_le_bytes(element.val.value)]
             ELSE Err("CorruptedFirstProposedBlockHeightItemLength")
        ELSE Err("CorruptedFirstProposedBlockHeightNotItem")

\* update_start_block_height (lines 155-169)
update_start_block_height(g, pool, start_block_height) ==
    grove_insert(g, <<pool.key>>, KEY_START_BLOCK_HEIGHT,
                 Item(u64_to_le_bytes(start_block_height)))

\* u64 as a fixed-width big-endian item
u64_to_be_bytes(n) == Reverse(IntToLe(n, U64Limbs))

u64_from_be_bytes(b) == LeToInt(Reverse(b))

\* read a fixed-width big-endian u64 item of the subtree of an epoch
get_u64_item(g, pool, key) ==
    LET element == grove_get(g, <<pool.key>>, key)
    IN  IF element.kind = "Err" THEN element
        ELSE IF element.val.type = "Item"
        THEN IF Len(element.val.value) = U64Limbs
             THEN [kind |-> "Ok", val |-> u64_from_be_bytes(element.val.value)]
             ELSE Err("CorruptedItemLength")
        ELSE Err("CorruptedNotItem")

update_storage_fee(g, pool, storage_fee) ==
    grove_insert(g, <<pool.key>>, KEY_STORAGE_FEE,
                 Item(u64_to_be_bytes(storage_fee)))

get_storage_fee(g, pool) == get_u64_item(g, pool, KEY_STORAGE_FEE)

delete_storage_fee(g, pool) == grove_delete(g, <<pool.key>>, KEY_STORAGE_FEE)

update_processing_fee(g, pool, processing_fee) ==
    grove_insert(g, <<pool.key>>, KEY_PROCESSING_FEE,
                 Item(u64_to_be_bytes(processing_fee)))

delete_processing_fee(g, pool) ==
    grove_delete(g, <<pool.key>>, KEY_PROCESSING_FEE)

init_proposers(g, pool) ==
    grove_insert(g, <<pool.key>>, KEY_PROPOSERS, EmptyTree)

delete_proposers(g, pool) == grove_delete(g, <<pool.key>>, KEY_PROPOSERS)

update_fee_multiplier(g, pool, multiplier) ==
    grove_insert(g, <<pool.key>>, KEY_FEE_MULTIPLIER,
                 Item(u64_to_be_bytes(multiplier)))

get_fee_multiplier(g, pool) == get_u64_item(g, pool, KEY_FEE_MULTIPLIER)

\* init_empty that creates the subtree and writes no storage fee
init_empty_tree_only(g, pool, keep) == grove_insert_tree(g, pool.key, keep)

\* init_empty (lines 25-41)
init_empty(g, pool, keep) ==
    LET tree == grove_insert_tree(g, pool.key, keep)
    IN  IF tree.kind = "Err" THEN tree
        ELSE update_storage_fee(tree.grove, pool, 0)

\* init_current (lines 43-61): each step returns early on its error
init_current(g, pool, multiplier, start_block_height, start_time) ==
    LET height == update_start_block_height(g, pool, start_block_height)
        processing == update_processing_fee(height.grove, pool, 0)
        proposers == init_proposers(processing.grove, pool)
        fee_multiplier ==
            update_fee_multiplier(proposers.grove, pool, multiplier)
    IN  IF height.kind = "Err" THEN height
        ELSE IF processing.kind = "Err" THEN processing
        ELSE IF proposers.kind = "Err" THEN proposers
        ELSE IF fee_multiplier.kind = "Err" THEN fee_multiplier
        ELSE update_start_time(fee_multiplier.grove, pool, start_time)

\* mark_as_paid that removes the start time with the fees
mark_as_paid_with_start_time(g, pool) ==
    LET proposers == delete_proposers(g, pool)
        storage == delete_storage_fee(proposers.grove, pool)
        processing == delete_processing_fee(storage.grove, pool)
    IN  IF proposers.kind = "Err" THEN proposers
        ELSE IF storage.kind = "Err" THEN storage
        ELSE IF processing.kind = "Err" THEN processing
        ELSE grove_delete(processing.grove, <<pool.key>>, KEY_START_TIME)

\* mark_as_paid (lines 63-71)
mark_as_paid(g, pool) ==
    LET proposers == delete_proposers(g, pool)
        storage == delete_storage_fee(proposers.grove, pool)
    IN  IF proposers.kind = "Err" THEN proposers
        ELSE IF storage.kind = "Err" THEN storage
        ELSE delete_processing_fee(storage.grove, pool)

MaxEpochCalls == 4

\* the epoch indexes the calls are made on: they differ in both bytes
EpochIndexes == {1, 256}

Multipliers == {3}

StartBlockHeights == {1000}

StartTimes == {-2, 1000}

NoArgs == [multiplier |-> 0, start_block_height |-> 0, start_time |-> 0]

\* the record of a call on an epoch pool
EpochCall(op, pool, args, result) ==
    [op |-> op, index |-> pool.index, key |-> pool.key,
     args |-> args, ok |-> result.kind = "Ok"]

EpochParked ==
    /\ feePools = None
    /\ epochCalls = <<>>
    /\ epochRead = None

\* a fresh store, before or after FeePools::init created the fee-pools tree
EpochInit ==
    /\ feePools \in {None, Some([k \in {} |-> EmptySubtree])}
    /\ epochCalls = <<>>
    /\ epochRead = None

EpochWrite(op, pool, args, result) ==
    /\ Len(epochCalls) < MaxEpochCalls
    /\ feePools' = result.grove
    /\ epochCalls' = Append(epochCalls, EpochCall(op, pool, args, result))
    /\ epochRead' = None

InitEmpty ==
    \E index \in EpochIndexes, keep \in BOOLEAN :
        LET pool == EpochPoolNew(index)
        IN  EpochWrite("init_empty", pool, NoArgs,
                       init_empty(feePools, pool, keep))

InitCurrent ==
    \E index \in EpochIndexes, multiplier \in Multipliers,
       start_block_height \in StartBlockHeights, start_time \in StartTimes :
        LET pool == EpochPoolNew(index)
        IN  EpochWrite("init_current", pool,
                       [multiplier |-> multiplier,
                        start_block_height |-> start_block_height,
                        start_time |-> start_time],
                       init_current(feePools, pool, multiplier,
                                    start_block_height, start_time))

MarkAsPaid ==
    \E index \in EpochIndexes :
        LET pool == EpochPoolNew(index)
        IN  EpochWrite("mark_as_paid", pool, NoArgs,
                       mark_as_paid(feePools, pool))

EpochReadResult(op, pool, result) ==
    /\ epochRead' = Some([op |-> op, index |-> pool.index, result |-> result])
    /\ UNCHANGED <<feePools, epochCalls>>

GetStartTime ==
    \E index \in EpochIndexes :
        LET pool == EpochPoolNew(index)
        IN  EpochReadResult("get_start_time", pool,
                            get_start_time(feePools, pool))

GetStartBlockHeight ==
    \E index \in EpochIndexes :
        LET pool == EpochPoolNew(index)
        IN  EpochReadResult("get_start_block_height", pool,
                            get_start_block_height(feePools, pool))

GetStorageFee ==
    \E index \in EpochIndexes :
        LET pool == EpochPoolNew(index)
        IN  EpochReadResult("get_storage_fee", pool,
                            get_storage_fee(feePools, pool))

GetFeeMultiplier ==
    \E index \in EpochIndexes :
        LET pool == EpochPoolNew(index)
        IN  EpochReadResult("get_fee_multiplier", pool,
                            get_fee_multiplier(feePools, pool))

(***************************************************************************)
(* Uniqueness of documents by their unique indices                         *)
(* (dpp/.../validation/state/validate_documents_uniqueness_by_indices.rs). *)
(* A document is [id, fields]; fields maps property names, "$ownerId"      *)
(* included, to values.  An index is [unique, properties].                 *)
(***************************************************************************)
OwnerId == "o1"

\* get_updated_at (lines 163-169)
get_updated_at(transition) ==
    IF transition.action = "Delete" THEN None ELSE transition.updated_at

\* get_property (lines 171-189)
get_property(path, transition) ==
    IF transition.action = "Delete" THEN None
    ELSE IF transition.data.kind = "Some"
            /\ path \in DOMAIN transition.data.val
    THEN Some(transition.data.val[path])
    ELSE None

\* one clause [property_name, "==", value] of a where query
Clause(property_name, value) == [property |-> property_name, value |-> value]

RECURSIVE QueryClauses(_, _, _, _)
\* the loop of build_query_for_index_definition (lines 124-159)
QueryClauses(properties, n, transition, owner_id) ==
    IF n > Len(properties) THEN <<>>
    ELSE LET property_name == properties[n]
             pushed ==
                 IF property_name = "$ownerId"
                 THEN <<Clause(property_name, owner_id)>>
                 ELSE IF property_name = "$createdAt"
                 THEN IF transition.action = "Create"
                         /\ transition.created_at.kind = "Some"
                      THEN <<Clause(property_name, transition.created_at.val)>>
                      ELSE <<>>
                 ELSE IF property_name = "$updatedAt"
                 THEN IF transition.action = "Create"
                         /\ get_updated_at(transition).kind = "Some"
                      THEN <<Clause(property_name,
                                    get_updated_at(transition).val)>>
                      ELSE <<>>
                 ELSE IF get_property(property_name, transition).kind = "Some"
                 THEN <<Clause(property_name,
                               get_property(property_name, transition).val)>>
                 ELSE <<>>
         IN  pushed \o QueryClauses(properties, n + 1, transition, owner_id)

\* build_query_for_index_definition (lines 118-161)
build_query_for_index_definition(index_definition, transition, owner_id) ==
    QueryClauses(index_definition.properties, 1, transition, owner_id)

RECURSIVE generate_document_index_queries(_, _, _, _, _)
\* generate_document_index_queries (lines 73-90): one QueryDefinition per
\* unique index, in index order; n and position tell where the index and
\* the transition stand in their lists
generate_document_index_queries(indices, n, transition, position, owner_id) ==
    IF n > Len(indices) THEN <<>>
    ELSE (IF indices[n].unique
          THEN <<[where_query |->
                      build_query_for_index_definition(indices[n],
                                                       transition, owner_id),
                  index_definition |-> indices[n],
                  document_transition |-> transition,
                  transition_position |-> position,
                  index_position |-> n]>>
          ELSE <<>>)
         \o generate_document_index_queries(indices, n + 1, transition,
                                            position, owner_id)

\* .filter(|query| !query.where_query.is_empty()) (line 51)
NonEmptyQueries(queries) ==
    LET HasClauses(query) == query.where_query # <<>>
    IN  SelectSeq(queries, HasClauses)

\* state_repository.fetch_documents: the repository documents that satisfy
\* every clause of the where query
fetch_documents(documents, where_query) ==
    {document \in documents :
        \A n \in 1..Len(where_query) :
            /\ where_query[n].property \in DOMAIN document.fields
            /\ document.fields[where_query[n].property]
                  = where_query[n].value}

\* StateError::DuplicateUniqueIndexError (lines 105-113); from names the
\* query whose result raised it
DuplicateUniqueIndexError(meta, from) ==
    [document_id |-> meta.document_transition.id,
     duplicating_properties |-> meta.index_definition.properties,
     from |-> from]

\* ValidationResult::add_error and ValidationResult::merge
add_error(validation_errors, error) == Append(validation_errors, error)

merge(validation_errors, other_errors) == validation_errors \o other_errors

RECURSIVE ValidateLoopAnySingle(_, _, _, _)
\* the loop of validate_uniqueness taking any single document for the origin
ValidateLoopAnySingle(futures_meta, results, i, validation_errors) ==
    IF i > Len(results) THEN [kind |-> "Ok", val |-> validation_errors]
    ELSE IF results[i].kind = "Err" THEN Err("ProtocolError")
    ELSE IF Cardinality(results[i].val) <= 1
    THEN ValidateLoopAnySingle(futures_meta, results, i + 1,
                               validation_errors)
    ELSE ValidateLoopAnySingle(futures_meta, results, i + 1,
             add_error(validation_errors,
                 DuplicateUniqueIndexError(futures_meta[i],
                                           results[i].query)))

RECURSIVE ValidateLoop(_, _, _, _)
\* the loop of validate_uniqueness (lines 97-114)
ValidateLoop(futures_meta, results, i, validation_errors) ==
    IF i > Len(results) THEN [kind |-> "Ok", val |-> validation_errors]
    ELSE IF results[i].kind = "Err" THEN Err("ProtocolError")
    ELSE LET documents == results[i].val
             only_origin_document ==
                 /\ Cardinality(documents) = 1
                 /\ \A document \in documents :
                       document.id = futures_meta[i].document_transition.id
         IN  IF documents = {} \/ only_origin_document
             THEN ValidateLoop(futures_meta, results, i + 1,
                               validation_errors)
             ELSE ValidateLoop(futures_meta, results, i + 1,
                      add_error(validation_errors,
                          DuplicateUniqueIndexError(futures_meta[i],
                                                    results[i].query)))

\* validate_uniqueness (lines 92-116)
validate_uniqueness(futures_meta, results) ==
    ValidateLoop(futures_meta, results, 1, <<>>)

\* join_all handing the outputs back in the order the fetches completed
join_all_in_completion_order(futures, order) ==
    [n \in 1..Len(futures) |-> futures[order[n]].result]

\* join_all (line 63): the outputs in the order of the fetches
join_all(futures, order) == [n \in 1..Len(futures) |-> futures[n].result]

MaxTransitions == 2

\* the document types of the data contract and their indices
DocumentIndices ==
    [indexed |-> <<[unique |-> TRUE, properties |-> <<"a">>],
                   [unique |-> FALSE, properties |-> <<"b">>],
                   [unique |-> TRUE, properties |-> <<"$ownerId", "b">>]>>,
     plain |-> <<>>]

Fields(a, b) == [p \in {"$ownerId", "a", "b"} |->
                    IF p = "a" THEN a ELSE IF p = "b" THEN b ELSE OwnerId]

Document(id, document_type, fields) ==
    [id |-> id, document_type |-> document_type, fields |-> fields]

\* the documents the state may hold before the batch: they differ on every
\* unique index
StoredDocuments ==
    {Document("d1", "indexed", Fields(1, 1)),
     Document("d3", "indexed", Fields(2, 2))}

DataOf(a, b) == Some([p \in {"a", "b"} |-> IF p = "a" THEN a ELSE b])

Transition(action, id, document_type, data) ==
    [action |-> action, id |-> id, document_type |-> document_type,
     data |-> data, created_at |-> None, updated_at |-> None]

DocumentTransitions ==
    {Transition(action, id, "indexed", DataOf(a, 1)) :
        action \in {"Create", "Replace"}, id \in {"d1", "d2"}, a \in {1, 2}}
      \cup {Transition("Create", "d2", "plain", DataOf(1, 1))}
      \cup {Transition("Delete", id, "indexed", None) : id \in {"d1", "d2"}}

UniqParked ==
    /\ repository = {}
    /\ batch = <<>>
    /\ transitionPos = 0
    /\ fetches = <<>>
    /\ completionOrder = <<>>
    /\ validationErrors = <<>>
    /\ uniqPc = "idle"

UniqInit ==
    /\ repository \in SUBSET StoredDocuments
    /\ batch \in SeqsUpTo(DocumentTransitions, MaxTransitions)
    /\ transitionPos = 1
    /\ fetches = <<>>
    /\ completionOrder = <<>>
    /\ validationErrors = <<>>
    /\ uniqPc = IF batch = <<>> THEN "done" ELSE "next"

\* the pc once the transition at transitionPos has been dealt with
AfterTransition == IF transitionPos = Len(batch) THEN "done" ELSE "next"

\* lines 39-62: the indices of the transition's document type, its queries,
\* and the fetches started for them
PrepareQueries ==
    /\ uniqPc = "next"
    /\ LET transition == batch[transitionPos]
           document_indices == DocumentIndices[transition.document_type]
           queries ==
               NonEmptyQueries(
                   generate_document_index_queries(document_indices, 1,
                       transition, transitionPos, OwnerId))
       IN  IF document_indices = <<>>
           THEN /\ transitionPos' = transitionPos + 1
                /\ uniqPc' = AfterTransition
                /\ fetches' = <<>>
           ELSE /\ fetches' = [n \in 1..Len(queries) |->
                                  [meta |-> queries[n], ready |-> FALSE,
                                   result |-> None]]
                /\ uniqPc' = "fetching"
                /\ transitionPos' = transitionPos
    /\ completionOrder' = <<>>
    /\ UNCHANGED <<repository, batch, validationErrors>>

\* one of the fetches in flight completes, with the matching documents or
\* with an error of the repository
CompleteFetch ==
    /\ uniqPc = "fetching"
    /\ \E k \in 1..Len(fetches), failed \in BOOLEAN :
          /\ ~fetches[k].ready
          /\ LET meta == fetches[k].meta
                 query == [transition |-> meta.transition_position,
                           index |-> meta.index_position]
                 found ==
                     fetch_documents(
                         {document \in repository :
                             document.document_type
                                = meta.document_transition.document_type},
                         meta.where_query)
             IN  fetches' = [fetches EXCEPT ![k] =
                     [meta |-> meta, ready |-> TRUE,
                      result |-> IF failed
                                 THEN [kind |-> "Err", query |-> query]
                                 ELSE [kind |-> "Ok", val |-> found,
                                       query |-> query]]]
          /\ completionOrder' = Append(completionOrder, k)
    /\ UNCHANGED <<repository, batch, transitionPos, validationErrors, uniqPc>>

\* lines 62-67: join_all(fetches).await, validate_uniqueness, merge
JoinAndValidate ==
    /\ uniqPc = "fetching"
    /\ \A k \in 1..Len(fetches) : fetches[k].ready
    /\ LET futures_meta == [n \in 1..Len(fetches) |-> fetches[n].meta]
           results == join_all(fetches, completionOrder)
           result == validate_uniqueness(futures_meta, results)
       IN  IF result.kind = "Err"
           THEN /\ uniqPc' = "failed"
                /\ UNCHANGED <<transitionPos, validationErrors>>
           ELSE /\ validationErrors' = merge(validationErrors, result.val)
                /\ transitionPos' = transitionPos + 1
                /\ uniqPc' = AfterTransition
    /\ UNCHANGED <<repository, batch, fetches, completionOrder>>

RECURSIVE ApplyTransitions(_, _, _)
\* the documents after the transitions of the batch have been applied
ApplyTransitions(documents, transitions, n) ==
    IF n > Len(transitions) THEN documents
    ELSE LET transition == transitions[n]
             others == {document \in documents : document.id # transition.id}
         IN  ApplyTransitions(
                 IF transition.action = "Delete" THEN others
                 ELSE others \cup
                      {Document(transition.id, transition.document_type,
                                Fields(transition.data.val["a"],
                                       transition.data.val["b"]))},
                 transitions, n + 1)

\* the batch passed (Ok with no error) and its documents are repository
CommitBatch ==
    /\ uniqPc = "done"
    /\ validationErrors = <<>>
    /\ repository' = ApplyTransitions(repository, batch, 1)
    /\ uniqPc' = "committed"
    /\ UNCHANGED <<batch, transitionPos, fetches, completionOrder,
                   validationErrors>>

(***************************************************************************)
(* Applying an identity credit withdrawal transition (dpp/.../             *)
(* apply_identity_credit_withdrawal_transition_factory.rs).  Every .await  *)
(* on the state repository is a step of its own, so that applications      *)
(* running at the same time interleave there.                              *)
(***************************************************************************)
MaxApplications == 2

Applications == 1..MaxApplications

\* the identities the state holds, with their balances
InitialIdentities == [id \in {"i1"} |-> 10]

\* the withdrawal transitions applied: of a known and of an unknown identity
WithdrawalTransitions ==
    {[identity_id |-> id, amount |-> 5, core_fee |-> 1] : id \in {"i1", "i2"}}

\* the index of the latest record of the withdrawal queue, 0 when empty
fetch_latest_withdrawal_transaction_index(queue_records) ==
    IF DOMAIN queue_records = {} THEN 0
    ELSE CHOOSE latest \in DOMAIN queue_records :
            \A other \in DOMAIN queue_records : other <= latest

\* the record is stored in the queue under its index
enqueue_withdrawal_transaction(queue_records, transaction_buffer) ==
    MapInsert(queue_records, transaction_buffer.index, transaction_buffer)

fetch_identity(identity_map, identity_id) ==
    IF identity_id \in DOMAIN identity_map
    THEN Some([id |-> identity_id, balance |-> identity_map[identity_id]])
    ELSE None

update_identity(identity_map, identity) ==
    MapInsert(identity_map, identity.id, identity.balance)

reduce_balance(identity, amount) ==
    [identity EXCEPT !.balance = @ - amount]

\* AssetUnlockBaseTransactionInfo (lines 40-54), as consensus_encode writes
\* it; by names the application that built it
AssetUnlockBaseTransactionInfo(state_transition, latest_withdrawal_index, by) ==
    [version |-> 1, lock_time |-> 0, value |-> state_transition.amount,
     index |-> latest_withdrawal_index + 1,
     fee |-> state_transition.core_fee, by |-> by]

IdleApplication ==
    [pc |-> "idle", state_transition |-> None, latest_withdrawal_index |-> 0,
     existing_identity |-> None]

WithdrawalParked ==
    /\ identityStore = [id \in {} |-> 0]
    /\ withdrawalQueue = [index \in {} |-> None]
    /\ applications = <<>>
    /\ debited = {}

WithdrawalInit ==
    /\ identityStore = InitialIdentities
    /\ withdrawalQueue = [index \in {} |-> None]
    /\ applications \in
          [Applications ->
              {[IdleApplication EXCEPT !.pc = "fetch_index",
                                       !.state_transition = Some(t)] :
                  t \in WithdrawalTransitions}]
    /\ debited = {}

Fail(a) == applications' = [applications EXCEPT ![a].pc = "failed"]

\* lines 33-36: fetch_latest_withdrawal_transaction_index().await?
FetchLatestWithdrawalIndex(a) ==
    /\ applications[a].pc = "fetch_index"
    /\ \E failed \in BOOLEAN :
          IF failed THEN Fail(a)
          ELSE applications' =
                  [applications EXCEPT
                      ![a].pc = "enqueue",
                      ![a].latest_withdrawal_index =
                          fetch_latest_withdrawal_transaction_index(
                              withdrawalQueue)]
    /\ UNCHANGED <<identityStore, withdrawalQueue, debited>>

\* lines 38-64: build the asset-unlock transaction, consensus_encode it,
\* enqueue_withdrawal_transaction(transaction_buffer).await?
EnqueueWithdrawal(a) ==
    /\ applications[a].pc = "enqueue"
    /\ \E encoded \in BOOLEAN, enqueued \in BOOLEAN :
          IF encoded /\ enqueued
          THEN /\ withdrawalQueue' =
                     enqueue_withdrawal_transaction(withdrawalQueue,
                         AssetUnlockBaseTransactionInfo(
                             applications[a].state_transition.val,
                             applications[a].latest_withdrawal_index, a))
               /\ applications' =
                     [applications EXCEPT ![a].pc = "fetch_identity"]
          ELSE Fail(a) /\ UNCHANGED withdrawalQueue
    /\ UNCHANGED <<identityStore, debited>>

\* lines 66-72: fetch_identity(..).await? and ok_or_else("Identity not found")
FetchIdentity(a) ==
    /\ applications[a].pc = "fetch_identity"
    /\ \E failed \in BOOLEAN :
          LET maybe_existing_identity ==
                  fetch_identity(identityStore,
                      applications[a].state_transition.val.identity_id)
          IN  IF failed \/ maybe_existing_identity.kind = "None"
              THEN Fail(a)
              ELSE applications' =
                      [applications EXCEPT
                          ![a].pc = "update_identity",
                          ![a].existing_identity = maybe_existing_identity]
    /\ UNCHANGED <<identityStore, withdrawalQueue, debited>>

\* lines 74-79: reduce_balance and update_identity(..).await
UpdateIdentity(a) ==
    /\ applications[a].pc = "update_identity"
    /\ \E failed \in BOOLEAN :
          IF failed
          THEN Fail(a) /\ UNCHANGED <<identityStore, debited>>
          ELSE /\ identityStore' =
                     update_identity(identityStore,
                         reduce_balance(applications[a].existing_identity.val,
                             applications[a].state_transition.val.amount))
               /\ debited' = debited \cup {a}
               /\ applications' = [applications EXCEPT ![a].pc = "done"]
    /\ UNCHANGED withdrawalQueue

(***************************************************************************)
(* High-level drive operations and their application as one batch          *)
(* (drive/src/drive/operation.rs).                                         *)
(***************************************************************************)
MaxBatchOperations == 2

DriveOk(v) == [kind |-> "Ok", val |-> v]

\* a low-level DriveOperation on one element of the backend
LowLevelOp(name, subtree, key) == [op |-> name, subtree |-> subtree, key |-> key]

\* serialized contracts and documents: CBOR that decodes, and bytes that do not
ContractCbor(c) == [cbor |-> "contract", of |-> c]

DocumentCbor(d) == [cbor |-> "document", of |-> d]

UndecodableCbor == [cbor |-> "undecodable"]

\* <Contract as DriveContractExt>::from_cbor
contract_from_cbor(contract_cbor) ==
    IF contract_cbor.cbor = "contract" THEN DriveOk(contract_cbor.of)
    ELSE Err("contract: invalid cbor")

\* Document::from_cbor
document_from_cbor(serialized_document) ==
    IF serialized_document.cbor = "document" THEN DriveOk(serialized_document.of)
    ELSE Err("document: invalid cbor")

document_type_for_name(contract_value, document_type_name) ==
    IF document_type_name \in contract_value.document_types
    THEN DriveOk(document_type_name)
    ELSE Err("DocumentTypeNotFound")

\* Drive::apply_contract_operations: an insert of a new contract with the
\* trees of its document types, or an update of the stored one
apply_contract_operations(drive, contract_value) ==
    IF contract_value.id \in drive.contracts
    THEN DriveOk(<<LowLevelOp("replace", "contract", contract_value.id)>>)
    ELSE DriveOk(<<LowLevelOp("insert", "contract", contract_value.id),
                   LowLevelOp("insert_tree", "document_types", contract_value.id)>>)

\* Drive::add_document_for_contract_operations
add_document_for_contract_operations(drive, document_value, override_document) ==
    IF document_value.id \in drive.documents
    THEN IF override_document
         THEN DriveOk(<<LowLevelOp("replace", "document", document_value.id)>>)
         ELSE Err("DocumentAlreadyExists")
    ELSE DriveOk(<<LowLevelOp("insert", "document", document_value.id),
                   LowLevelOp("insert", "index", document_value.id)>>)

\* Drive::delete_document_for_contract_operations
delete_document_for_contract_operations(drive, document_id, contract_value, name) ==
    IF document_type_for_name(contract_value, name).kind = "Err"
    THEN document_type_for_name(contract_value, name)
    ELSE IF document_id \notin drive.documents
    THEN Err("DocumentNotFound")
    ELSE DriveOk(<<LowLevelOp("delete", "index", document_id),
                   LowLevelOp("delete", "document", document_id)>>)

\* Drive::update_document_for_contract_operations
update_document_for_contract_operations(drive, document_value) ==
    IF document_value.id \notin drive.documents
    THEN Err("DocumentNotFound")
    ELSE DriveOk(<<LowLevelOp("replace", "document", document_value.id)>>)

\* lines 49-90
ContractOperationType_to_drive_operations(op, drive) ==
    CASE op.variant = "ApplyContractCbor" ->
            LET decoded_contract == contract_from_cbor(op.contract_cbor)
            IN  IF decoded_contract.kind = "Err" THEN decoded_contract
                ELSE apply_contract_operations(drive, decoded_contract.val)
      [] op.variant = "ApplyContractWithSerialization" ->
            apply_contract_operations(drive, op.contract)

\* lines 214-222, 246-251, 313-320, 342-347, 370-373: decode what is
\* serialized (the contract first, then the document) and look the
\* document type up; the document when all of it succeeded
LowerDocument(maybe_contract, maybe_document, document_type_name) ==
    IF maybe_contract.kind = "Err" THEN maybe_contract
    ELSE IF maybe_document.kind = "Err" THEN maybe_document
    ELSE LET document_type ==
                 document_type_for_name(maybe_contract.val, document_type_name)
         IN  IF document_type.kind = "Err" THEN document_type
             ELSE maybe_document

\* lines 197-390
DocumentOperationType_to_drive_operations(op, drive) ==
    LET add(d) == add_document_for_contract_operations(drive, d,
                                                       op.override_document)
        update(d) == update_document_for_contract_operations(drive, d)
        then_add(lowered) ==
            IF lowered.kind = "Err" THEN lowered ELSE add(lowered.val)
        then_update(lowered) ==
            IF lowered.kind = "Err" THEN lowered ELSE update(lowered.val)
    IN
    CASE op.variant = "AddSerializedDocumentForSerializedContract" ->
            then_add(LowerDocument(contract_from_cbor(op.serialized_contract),
                                   document_from_cbor(op.serialized_document),
                                   op.document_type_name))
      [] op.variant = "AddSerializedDocumentForContract" ->
            then_add(LowerDocument(DriveOk(op.contract),
                                   document_from_cbor(op.serialized_document),
                                   op.document_type_name))
      [] op.variant = "AddDocumentForContract" ->
            add(op.document)
      [] op.variant = "DeleteDocumentForContract" ->
            delete_document_for_contract_operations(drive, op.document_id,
                op.contract, op.document_type_name)
      [] op.variant = "DeleteDocumentForContractCbor" ->
            LET decoded_contract == contract_from_cbor(op.contract_cbor)
            IN  IF decoded_contract.kind = "Err" THEN decoded_contract
                ELSE delete_document_for_contract_operations(drive,
                        op.document_id, decoded_contract.val,
                        op.document_type_name)
      [] op.variant = "UpdateDocumentForContractCbor" ->
            then_update(LowerDocument(contract_from_cbor(op.contract_cbor),
                                      document_from_cbor(op.serialized_document),
                                      op.document_type_name))
      [] op.variant = "UpdateSerializedDocumentForContract" ->
            then_update(LowerDocument(DriveOk(op.contract),
                                      document_from_cbor(op.serialized_document),
                                      op.document_type_name))
      [] op.variant = "UpdateDocumentForContract" ->
            then_update(LowerDocument(DriveOk(op.contract),
                                      DriveOk(op.document),
                                      op.document_type_name))

\* lines 432-456
DriveOperationType_to_drive_operations(drive_op, drive) ==
    CASE drive_op.type = "ContractOperation" ->
            ContractOperationType_to_drive_operations(drive_op.operation, drive)
      [] drive_op.type = "DocumentOperation" ->
            DocumentOperationType_to_drive_operations(drive_op.operation, drive)

\* one low-level operation on the backend; None when the backend rejects it
ApplyLowLevelOp(drive, low) ==
    CASE low.subtree = "contract" /\ low.op = "insert" ->
            IF low.key \in drive.contracts THEN None
            ELSE Some([drive EXCEPT !.contracts = @ \cup {low.key}])
      [] low.subtree = "contract" /\ low.op = "replace" ->
            IF low.key \in drive.contracts THEN Some(drive) ELSE None
      [] low.subtree = "document" /\ low.op = "insert" ->
            IF drive.contracts = {} \/ low.key \in drive.documents THEN None
            ELSE Some([drive EXCEPT !.documents = @ \cup {low.key}])
      [] low.subtree = "document" /\ low.op = "replace" ->
            IF low.key \in drive.documents THEN Some(drive) ELSE None
      [] low.subtree = "document" /\ low.op = "delete" ->
            IF low.key \in drive.documents
            THEN Some([drive EXCEPT !.documents = @ \ {low.key}])
            ELSE None
      [] OTHER -> Some(drive)

RECURSIVE ApplyLowLevelOps(_, _)
ApplyLowLevelOps(drive, drive_operations) ==
    IF drive_operations = <<>> THEN Some(drive)
    ELSE LET next == ApplyLowLevelOp(drive, Head(drive_operations))
         IN  IF next.kind = "None" THEN None
             ELSE ApplyLowLevelOps(next.val, Tail(drive_operations))

\* Drive::apply_batch_drive_operations: the batch is applied to the backend
\* as a whole or not at all; with apply = false it is only costed
apply_batch_drive_operations(drive, apply, drive_operations, backend_ok) ==
    LET applied == ApplyLowLevelOps(drive, drive_operations)
    IN  IF ~backend_ok THEN [result |-> Err("GroveDB"), drive |-> drive]
        ELSE IF ~apply
        THEN [result |-> DriveOk(drive_operations), drive |-> drive]
        ELSE IF applied.kind = "None"
        THEN [result |-> Err("GroveDB"), drive |-> drive]
        ELSE [result |-> DriveOk(drive_operations), drive |-> applied.val]

\* what a call of apply_drive_operations leaves: its result, the backend, and
\* as history the results of the lowerings it ran and the batch it handed
\* to the backend
DriveCallOutcome(result, drive, lowered, handed) ==
    [result |-> result, drive |-> drive, lowered |-> lowered, handed |-> handed]

RECURSIVE apply_drive_operations_loop_prepending(_, _, _, _)
\* the loop putting the operations of each lowering in front of the ones
\* gathered so far
apply_drive_operations_loop_prepending(drive, operations, drive_operations, lowered) ==
    IF operations = <<>>
    THEN [result |-> DriveOk(drive_operations), lowered |-> lowered]
    ELSE LET lowering ==
                 DriveOperationType_to_drive_operations(Head(operations), drive)
         IN  IF lowering.kind = "Err"
             THEN [result |-> lowering, lowered |-> Append(lowered, lowering)]
             ELSE apply_drive_operations_loop_prepending(drive,
                      Tail(operations), lowering.val \o drive_operations,
                      Append(lowered, lowering))

\* lines 460-484: lower every operation in turn, `?` returning the first
\* error; then hand all the low-level operations over as one batch.  The
\* fee is calculate_fee of the cost operations of the batch.
RECURSIVE apply_drive_operations_loop(_, _, _, _)
apply_drive_operations_loop(drive, operations, drive_operations, lowered) ==
    IF operations = <<>>
    THEN [result |-> DriveOk(drive_operations), lowered |-> lowered]
    ELSE LET lowering ==
                 DriveOperationType_to_drive_operations(Head(operations), drive)
         IN  IF lowering.kind = "Err"
             THEN [result |-> lowering, lowered |-> Append(lowered, lowering)]
             ELSE apply_drive_operations_loop(drive, Tail(operations),
                      drive_operations \o lowering.val,
                      Append(lowered, lowering))

\* the same call, handing the operations of each lowering to the backend
\* as soon as they are lowered
apply_drive_operations_each(drive, operations, apply, backend_ok) ==
    LET RECURSIVE each(_, _, _)
        each(current, rest, lowered) ==
            IF rest = <<>>
            THEN DriveCallOutcome(DriveOk(<<>>), current, lowered, Some(<<>>))
            ELSE LET lowering ==
                         DriveOperationType_to_drive_operations(Head(rest),
                                                                current)
                     applied_batch ==
                         apply_batch_drive_operations(current, apply,
                                                      lowering.val, backend_ok)
                 IN  IF lowering.kind = "Err"
                     THEN DriveCallOutcome(lowering, current,
                                           Append(lowered, lowering), None)
                     ELSE IF applied_batch.result.kind = "Err"
                     THEN DriveCallOutcome(applied_batch.result, current,
                                           Append(lowered, lowering),
                                           Some(lowering.val))
                     ELSE each(applied_batch.drive, Tail(rest),
                               Append(lowered, lowering))
    IN  each(drive, operations, <<>>)

apply_drive_operations(drive, operations, apply, backend_ok) ==
    LET looped == apply_drive_operations_loop(drive, operations, <<>>, <<>>)
        applied_batch == apply_batch_drive_operations(drive, apply,
                             looped.result.val, backend_ok)
    IN  IF looped.result.kind = "Err"
        THEN DriveCallOutcome(looped.result, drive, looped.lowered, None)
        ELSE DriveCallOutcome(applied_batch.result, applied_batch.drive,
                              looped.lowered,
                              Some(looped.result.val))

\* the contract and the documents of the operations
ContractC1 == [id |-> "c1", document_types |-> {"note"}]

DocumentD(id) == [id |-> id, owner_id |-> "o1"]

ContractOperation(operation) ==
    [type |-> "ContractOperation", operation |-> operation]

DocumentOperation(operation) ==
    [type |-> "DocumentOperation", operation |-> operation]

DriveOperationTypes ==
    {ContractOperation([variant |-> "ApplyContractCbor",
                        contract_cbor |-> ContractCbor(ContractC1)]),
     ContractOperation([variant |-> "ApplyContractCbor",
                        contract_cbor |-> UndecodableCbor]),
     ContractOperation([variant |-> "ApplyContractWithSerialization",
                        contract |-> ContractC1]),
     DocumentOperation([variant |-> "AddSerializedDocumentForSerializedContract",
                        serialized_document |-> DocumentCbor(DocumentD("d1")),
                        serialized_contract |-> ContractCbor(ContractC1),
                        document_type_name |-> "note",
                        override_document |-> FALSE]),
     DocumentOperation([variant |-> "AddSerializedDocumentForContract",
                        serialized_document |-> UndecodableCbor,
                        contract |-> ContractC1,
                        document_type_name |-> "note",
                        override_document |-> FALSE]),
     DocumentOperation([variant |-> "AddDocumentForContract",
                        document |-> DocumentD("d2"),
                        override_document |-> TRUE]),
     DocumentOperation([variant |-> "DeleteDocumentForContract",
                        document_id |-> "d1",
                        contract |-> ContractC1,
                        document_type_name |-> "note",
                        override_document |-> FALSE]),
     DocumentOperation([variant |-> "DeleteDocumentForContractCbor",
                        document_id |-> "d2",
                        contract_cbor |-> UndecodableCbor,
                        document_type_name |-> "note",
                        override_document |-> FALSE]),
     DocumentOperation([variant |-> "UpdateDocumentForContractCbor",
                        serialized_document |-> DocumentCbor(DocumentD("d1")),
                        contract_cbor |-> ContractCbor(ContractC1),
                        document_type_name |-> "unknown",
                        override_document |-> FALSE]),
     DocumentOperation([variant |-> "UpdateSerializedDocumentForContract",
                        serialized_document |-> DocumentCbor(DocumentD("d1")),
                        contract |-> ContractC1,
                        document_type_name |-> "note",
                        override_document |-> FALSE]),
     DocumentOperation([variant |-> "UpdateDocumentForContract",
                        document |-> DocumentD("d2"),
                        contract |-> ContractC1,
                        document_type_name |-> "note",
                        override_document |-> FALSE])}

\* the backends a call can find: documents only under a stored contract
DriveStates ==
    {[contracts |-> {}, documents |-> {}]} \cup
    {[contracts |-> {"c1"}, documents |-> ds] : ds \in SUBSET {"d1", "d2"}}

NoDriveCall ==
    [operations |-> <<>>, apply |-> FALSE, before |-> [contracts |-> {}, documents |-> {}],
     outcome |-> None]

OperationsParked ==
    /\ driveState = [contracts |-> {}, documents |-> {}]
    /\ driveCall = NoDriveCall

OperationsInit ==
    /\ driveState \in DriveStates
    /\ driveCall = NoDriveCall

\* one call of Drive::apply_drive_operations
ApplyDriveOperations ==
    /\ driveCall.outcome.kind = "None"
    /\ \E operations \in SeqsUpTo(DriveOperationTypes, MaxBatchOperations),
          apply \in BOOLEAN, backend_ok \in BOOLEAN :
          LET call == apply_drive_operations(driveState, operations, apply,
                                             backend_ok)
          IN  /\ driveState' = call.drive
              /\ driveCall' = [operations |-> operations, apply |-> apply,
                               before |-> driveState, outcome |-> Some(call)]

(***************************************************************************)
(* Validation of a data contract                                           *)
(* (dpp/src/data_contract/validation/data_contract_validator.rs).  The     *)
(* contract is given as the schema stages see it: its enriched document    *)
(* schemas in the order the documents map iterates, and the stage before   *)
(* the index checks that rejects it, if one does.                          *)
(***************************************************************************)
MAX_INDEXED_STRING_PROPERTY_LENGTH == 63

UNIQUE_INDEX_LIMIT == 3

NOT_ALLOWED_SYSTEM_PROPERTIES == {"$id"}

ALLOWED_INDEX_SYSTEM_PROPERTIES == {"$ownerId", "$createdAt", "$updatedAt"}

MAX_INDEXED_BYTE_ARRAY_PROPERTY_LENGTH == 255

MAX_INDEXED_ARRAY_ITEMS == 1024

\* the stages of lines 58-113, in their order
SchemaStages ==
    <<"data contract schema", "protocol version", "max depth", "patterns",
      "document schemas">>

\* JsonSchemaValidator::validate_data_contract_schema, the protocol version
\* validator, validate_data_contract_max_depth, validate_data_contract_patterns
\* and the schema validator of the documents: the errors of one stage
StageResult(raw_data_contract, stage) ==
    IF raw_data_contract.rejected_by = stage
    THEN <<[code |-> "JsonSchemaError", stage |-> stage]>>
    ELSE <<>>

\* JsonSchemaExt: the type tests of a property definition
is_type_of_byte_array(property_definition) == property_definition.byteArray

is_type_of_object(property_definition) == property_definition.type = "object"

is_type_of_array(property_definition) == property_definition.type = "array"

is_type_of_string(property_definition) == property_definition.type = "string"

\* get_property_definition_by_path(document_schema, property_name).ok()
get_property_definition_by_path(document_schema, property_name) ==
    IF property_name \in DOMAIN document_schema.properties
    THEN Some(document_schema.properties[property_name])
    ELSE None

\* lines 353-365
validate_max_unique_indices_at_limit(indices, document_type) ==
    IF Cardinality({i \in 1..Len(indices) : indices[i].unique})
          >= UNIQUE_INDEX_LIMIT
    THEN <<[code |-> "UniqueIndicesLimitReachedError",
            document_type |-> document_type,
            index_limit |-> UNIQUE_INDEX_LIMIT]>>
    ELSE <<>>

validate_max_unique_indices(indices, document_type) ==
    IF Cardinality({i \in 1..Len(indices) : indices[i].unique})
          > UNIQUE_INDEX_LIMIT
    THEN <<[code |-> "UniqueIndicesLimitReachedError",
            document_type |-> document_type,
            index_limit |-> UNIQUE_INDEX_LIMIT]>>
    ELSE <<>>

\* lines 341-350: itertools duplicates() yields a name once, when it is met
\* for the second time
validate_index_duplicates(indices, document_type) ==
    LET second(i) ==
            Cardinality({j \in 1..(i - 1) : indices[j].name = indices[i].name}) = 1
        positions == SelectSeq([i \in 1..Len(indices) |-> i], second)
    IN  [n \in 1..Len(positions) |->
            [code |-> "DuplicateIndexNameError",
             document_type |-> document_type,
             duplicate_index_name |-> indices[positions[n]].name]]

\* lines 368-384
validate_no_system_indices(index_definition, document_type) ==
    LET system(property_name) ==
            property_name \in NOT_ALLOWED_SYSTEM_PROPERTIES
        found == SelectSeq(index_definition.properties, system)
    IN  [n \in 1..Len(found) |->
            [code |-> "SystemPropertyIndexAlreadyPresentError",
             document_type |-> document_type,
             index_definition |-> index_definition.name,
             property_name |-> found[n]]]

\* lines 133-150: the properties of the index that pass the filter of line
\* 138, in the order the HashMap built from them iterates
PropertyDefinitionEntities(index_definition, hash_order) ==
    LET kept(property_name) ==
            /\ property_name \in ALLOWED_INDEX_SYSTEM_PROPERTIES
            /\ \E i \in 1..Len(index_definition.properties) :
                  index_definition.properties[i] = property_name
    IN  SelectSeq(hash_order, kept)

\* lines 320-338
validate_not_defined_properties(entities, document_schema, index_definition, document_type) ==
    LET undefined(property_name) ==
            get_property_definition_by_path(document_schema,
                                            property_name).kind = "None"
        missing == SelectSeq(entities, undefined)
    IN  [n \in 1..Len(missing) |->
            [code |-> "UndefinedIndexPropertyError",
             document_type |-> document_type,
             index_definition |-> index_definition.name,
             property_name |-> missing[n]]]

InvalidIndexedPropertyConstraintError(document_type, index_definition, property_name, max_limit) ==
    [code |-> "InvalidIndexedPropertyConstraintError",
     document_type |-> document_type,
     index_definition |-> index_definition.name,
     property_name |-> property_name,
     constraint_name |-> "maxLength",
     reason |-> max_limit]

\* lines 164-307: the checks of one property definition of an index; acc
\* carries the result and the fingerprints of the indices seen
ValidatePropertyDefinition(acc, property_name, document_schema, index_definition, document_type) ==
    LET property_definition ==
            get_property_definition_by_path(document_schema, property_name).val
        is_byte_array == is_type_of_byte_array(property_definition)
        invalid_property_type ==
            IF is_type_of_object(property_definition) THEN "object" ELSE ""
        typed ==
            IF invalid_property_type # ""
            THEN add_error(acc.result,
                    [code |-> "InvalidIndexPropertyTypError",
                     document_type |-> document_type,
                     index_definition |-> index_definition.name,
                     property_name |-> property_name,
                     property_type |-> invalid_property_type])
            ELSE acc.result
        max_items == property_definition.maxItems
        max_limit == IF is_byte_array
                     THEN MAX_INDEXED_BYTE_ARRAY_PROPERTY_LENGTH
                     ELSE MAX_INDEXED_ARRAY_ITEMS
        \* lines 235-248
        items_checked ==
            IF max_items.kind = "None" \/ max_items.val > max_limit
            THEN add_error(typed,
                    InvalidIndexedPropertyConstraintError(document_type,
                        index_definition, property_name, max_limit))
            ELSE typed
        max_length == property_definition.maxLength
        \* lines 250-269
        length_checked ==
            IF /\ is_type_of_string(property_definition)
               /\ \/ max_length.kind = "None"
                  \/ max_length.val > MAX_INDEXED_STRING_PROPERTY_LENGTH
            THEN add_error(items_checked,
                    InvalidIndexedPropertyConstraintError(document_type,
                        index_definition, property_name,
                        MAX_INDEXED_STRING_PROPERTY_LENGTH))
            ELSE items_checked
        \* lines 272-295
        fields == index_definition.properties
        required_fields == document_schema.required
        all_are_required ==
            \A i \in 1..Len(fields) : fields[i] \in required_fields
        all_are_not_required ==
            \A i \in 1..Len(fields) : fields[i] \notin required_fields
        compound_checked ==
            IF ~all_are_required /\ ~all_are_not_required
            THEN add_error(length_checked,
                    [code |-> "InvalidCompoundIndexError",
                     document_type |-> document_type,
                     index_definition |-> index_definition.name])
            ELSE length_checked
        \* lines 297-308
        indices_fingerprint == index_definition.properties
        fingerprint_checked ==
            IF indices_fingerprint \in acc.indices_fingerprints
            THEN add_error(compound_checked,
                    [code |-> "DuplicateIndexError",
                     document_type |-> document_type,
                     index_definition |-> index_definition.name])
            ELSE compound_checked
    IN  IF invalid_property_type = "" /\ is_type_of_array(property_definition)
        THEN IF Len(index_definition.properties) > 1
             THEN [result |-> fingerprint_checked,
                   indices_fingerprints |->
                       acc.indices_fingerprints \cup {indices_fingerprint}]
             ELSE [acc EXCEPT !.result = length_checked]
        ELSE [acc EXCEPT !.result = typed]

RECURSIVE PropertyDefinitionsLoop(_, _, _, _, _)
\* line 164: the loop over property_definition_entities
PropertyDefinitionsLoop(acc, entities, document_schema, index_definition, document_type) ==
    IF entities = <<>> THEN acc
    ELSE PropertyDefinitionsLoop(
            ValidatePropertyDefinition(acc, Head(entities), document_schema,
                                       index_definition, document_type),
            Tail(entities), document_schema, index_definition, document_type)

RECURSIVE IndexDefinitionsLoop(_, _, _, _, _)
\* lines 129-310: the loop over the indices of one document type; returned
\* is set by the return of line 160
IndexDefinitionsLoop(acc, indices, document_schema, document_type, hash_order) ==
    IF indices = <<>> THEN [acc EXCEPT !.returned = FALSE]
    ELSE LET index_definition == Head(indices)
             system_checked ==
                 merge(acc.result,
                       validate_no_system_indices(index_definition,
                                                  document_type))
             entities == PropertyDefinitionEntities(index_definition,
                                                    hash_order)
             not_defined ==
                 validate_not_defined_properties(entities, document_schema,
                     index_definition, document_type)
             checked ==
                 PropertyDefinitionsLoop(
                     [result |-> system_checked,
                      indices_fingerprints |-> acc.indices_fingerprints],
                     entities, document_schema, index_definition,
                     document_type)
         IN  IF not_defined # <<>>
             THEN [result |-> merge(system_checked, not_defined),
                   indices_fingerprints |-> acc.indices_fingerprints,
                   returned |-> TRUE]
             ELSE IndexDefinitionsLoop(
                     [result |-> checked.result,
                      indices_fingerprints |-> checked.indices_fingerprints,
                      returned |-> FALSE],
                     Tail(indices), document_schema, document_type, hash_order)

RECURSIVE DocumentsLoop(_, _, _)
\* lines 116-311: the loop over the document types that have indices
DocumentsLoop(result, documents, hash_order) ==
    IF documents = <<>> THEN result
    ELSE LET document_schema == Head(documents)
             document_type == document_schema.document_type
             indices == document_schema.indices.val
             counted ==
                 merge(merge(result,
                             validate_index_duplicates(indices, document_type)),
                       validate_max_unique_indices(indices, document_type))
             looped ==
                 IndexDefinitionsLoop(
                     [result |-> counted, indices_fingerprints |-> {},
                      returned |-> FALSE],
                     indices, document_schema, document_type, hash_order)
         IN  IF document_schema.indices.kind = "None"
             THEN DocumentsLoop(result, Tail(documents), hash_order)
             ELSE IF looped.returned THEN looped.result
             ELSE DocumentsLoop(looped.result, Tail(documents), hash_order)

RECURSIVE SchemaStagesLoop(_, _, _)
\* lines 58-113: every stage merges its errors and returns when the result
\* is no longer valid
SchemaStagesLoop(result, raw_data_contract, stages) ==
    IF stages = <<>> THEN result
    ELSE LET merged ==
                 merge(result, StageResult(raw_data_contract, Head(stages)))
         IN  IF merged # <<>> THEN merged
             ELSE SchemaStagesLoop(merged, raw_data_contract, Tail(stages))

\* lines 52-314: DataContractValidator::validate; the result is the list of
\* its errors, valid when empty
DataContractValidator_validate(raw_data_contract, hash_order) ==
    LET staged == SchemaStagesLoop(<<>>, raw_data_contract, SchemaStages)
    IN  IF staged # <<>> THEN staged
        ELSE DocumentsLoop(staged, raw_data_contract.documents, hash_order)

MaxUniqueIndices == 4

PropertyDefinition(type, byteArray, maxLength, maxItems) ==
    [type |-> type, byteArray |-> byteArray, maxLength |-> maxLength,
     maxItems |-> maxItems]

\* what the base document schema declares for $ownerId
OwnerIdDefinition == PropertyDefinition("array", TRUE, None, Some(32))

TimestampDefinition == PropertyDefinition("integer", FALSE, None, None)

StringDefinition(maxLength) == PropertyDefinition("string", FALSE, maxLength, None)

IndexDefinition(name, properties, unique) ==
    [name |-> name, properties |-> properties, unique |-> unique]

\* k unique indices
UniqueIndices(k) == [i \in 1..k |-> IndexDefinition("unique" \o ToString(i), <<"a">>, TRUE)]

\* further indices: compound ones over user-defined and system properties,
\* and one over a property c that no schema defines
FurtherIndices ==
    {<<>>,
     <<IndexDefinition("a_b", <<"a", "b">>, FALSE)>>,
     <<IndexDefinition("owner_a", <<"$ownerId", "a">>, FALSE)>>,
     <<IndexDefinition("created", <<"$createdAt">>, FALSE)>>,
     <<IndexDefinition("c", <<"c">>, FALSE)>>,
     <<IndexDefinition("owner_created_b", <<"$ownerId", "$createdAt", "b">>, TRUE)>>}

DocumentProperties(maxLength, timestamps) ==
    IF timestamps
    THEN [p \in {"$ownerId", "$createdAt", "a", "b"} |->
            CASE p = "$ownerId" -> OwnerIdDefinition
              [] p = "$createdAt" -> TimestampDefinition
              [] p = "a" -> StringDefinition(maxLength)
              [] p = "b" -> TimestampDefinition]
    ELSE [p \in {"$ownerId", "a", "b"} |->
            CASE p = "$ownerId" -> OwnerIdDefinition
              [] p = "a" -> StringDefinition(maxLength)
              [] p = "b" -> TimestampDefinition]

RequiredFields == {{}, {"a"}, {"a", "b"}, {"$ownerId", "a"}}

\* maxItems of an indexed array: absent, and at and above the two bounds
MaxItemsValues ==
    {None, Some(MAX_INDEXED_BYTE_ARRAY_PROPERTY_LENGTH),
     Some(MAX_INDEXED_BYTE_ARRAY_PROPERTY_LENGTH + 1),
     Some(MAX_INDEXED_ARRAY_ITEMS), Some(MAX_INDEXED_ARRAY_ITEMS + 1)}

\* document types whose user-defined property b is an indexed array
ArrayDocumentSchemas(document_type) ==
    {[document_type |-> document_type,
      properties |->
          [DocumentProperties(Some(MAX_INDEXED_STRING_PROPERTY_LENGTH), FALSE)
              EXCEPT !["b"] = PropertyDefinition("array", byteArray, None,
                                                 maxItems)],
      required |-> {},
      indices |-> Some(<<IndexDefinition("b", <<"b">>, FALSE)>>)] :
        byteArray \in BOOLEAN, maxItems \in MaxItemsValues}

DocumentSchemas(document_type) ==
    {[document_type |-> document_type,
      properties |-> DocumentProperties(StringDefinition(None).maxLength, FALSE),
      required |-> {}, indices |-> None]} \cup
    ArrayDocumentSchemas(document_type) \cup
    {[document_type |-> document_type,
      properties |-> DocumentProperties(maxLength, timestamps),
      required |-> required,
      indices |-> Some(UniqueIndices(k) \o further)] :
        maxLength \in {None, Some(63), Some(64)}, timestamps \in BOOLEAN,
        required \in RequiredFields, k \in 0..MaxUniqueIndices,
        further \in FurtherIndices}

\* the document types that come first where a contract has two
FirstDocumentSchemas ==
    {d \in DocumentSchemas("first") :
        /\ d.required = {}
        /\ d.properties["a"].maxLength = Some(63)
        /\ \/ d.indices.kind = "None"
           \/ /\ Len(d.indices.val) = 1
              /\ d.indices.val[1].name \in {"a_b", "created"}}

RawDataContracts ==
    {[rejected_by |-> rejected_by, documents |-> documents] :
        rejected_by \in {"none"} \cup {SchemaStages[i] : i \in 1..Len(SchemaStages)},
        documents \in {<<d>> : d \in DocumentSchemas("second")} \cup
                      {<<d1, d2>> : d1 \in FirstDocumentSchemas,
                                    d2 \in DocumentSchemas("second")}}

\* the orders a HashMap of the allowed system properties can iterate in
HashOrders ==
    {order \in [1..3 -> ALLOWED_INDEX_SYSTEM_PROPERTIES] :
        \A i, j \in 1..3 : i # j => order[i] # order[j]}

ContractParked ==
    /\ rawDataContract = None
    /\ hashOrder = <<>>
    /\ contractResult = None

ContractInit ==
    /\ rawDataContract \in {Some(c) : c \in RawDataContracts}
    /\ hashOrder \in HashOrders
    /\ contractResult = None

\* one call of DataContractValidator::validate
ValidateDataContract ==
    /\ contractResult = None
    /\ contractResult' =
          Some(DataContractValidator_validate(rawDataContract.val, hashOrder))
    /\ UNCHANGED <<rawDataContract, hashOrder>>

\* the values two of which are serialized side by side, and whose encodings
\* are the material of the buffers handed to deserialize
PairEpochMaps ==
    UNION {[ks -> {U32(1), <<44, 1, 0, 0>>}] : ks \in SUBSET EpochKeys}

PairFlagsValues ==
    {SingleEpoch(b) : b \in {0, 7}}
    \cup {MultiEpoch(b, m) : b \in {0, 7}, m \in PairEpochMaps}
    \cup {SingleEpochOwned(b, [i \in 1..32 |-> 17]) : b \in {0, 7}}
    \cup {MultiEpochOwned(b, m, [i \in 1..32 |-> 17]) :
            b \in {0, 7}, m \in PairEpochMaps}

KeysOf(f) == IF HasEpochMap(f) THEN DOMAIN f.epoch_map ELSE {}

PairParked ==
    /\ flagsB = NoFlags
    /\ bufferB = None

PairInit ==
    /\ flags \in PairFlagsValues
    /\ buffer = <<>>
    /\ decoded = None
    /\ codecPc = "input"
    /\ flagsB \in PairFlagsValues
    /\ bufferB = None

\* serialize of the second value
SerializeOther ==
    /\ bufferB = None
    /\ \E order \in Orders(KeysOf(flagsB)) :
          bufferB' = Some(serialize(flagsB, order))
    /\ UNCHANGED <<flags, buffer, decoded, codecPc, flagsB>>

\* the buffers serialize yields for the values above
CompleteEncodings ==
    UNION {{serialize(f, order) : order \in Orders(KeysOf(f))} :
              f \in PairFlagsValues}

\* buffers handed to deserialize: the encodings, cut short by a byte,
\* followed by one or two more bytes, and under a tag that does not exist
DecodeBuffers ==
    UNION {{b, SubSeq(b, 1, Len(b) - 1), b \o <<1>>, b \o <<1, 1>>,
            [b EXCEPT ![1] = 4], [b EXCEPT ![1] = 255]} :
              b \in CompleteEncodings}

DecodeInit ==
    /\ flags = NoFlags
    /\ buffer \in DecodeBuffers
    /\ decoded = None
    /\ codecPc = "serialized"

(***************************************************************************)
(* The worker loop one step finer (src/node/src/lib.rs, lines 104-186):    *)
(* rx.recv() handing over a message and the arm of the match returning are *)
(* two steps, and the callers go on submitting in between.                 *)
(***************************************************************************)
\* a worker that takes the next message while an arm is still running
worker_calls_recv_while_handling(handlers_running) == TRUE

\* `while let Ok(message) = rx.recv() { match message { .. } }`: the one
\* worker thread is back at rx.recv() only when the arm it entered has
\* returned
worker_calls_recv(handlers_running) == handlers_running = 0

LoopParked == handlersRunning = 0

\* rx.recv() returns a message of the channel and its arm is entered
EnterHandler ==
    /\ worker = "running"
    /\ worker_calls_recv(handlersRunning)
    /\ handlersRunning < Len(queue)
    /\ handlersRunning' = handlersRunning + 1
    /\ UNCHANGED workerVars

\* the arm that was entered runs to its end
HandlerReturns ==
    /\ handlersRunning > 0
    /\ handlersRunning' = handlersRunning - 1

(***************************************************************************)
(* Reads of the fields of an epoch from a store that other writers may     *)
(* have left malformed (epoch_pool.rs lines 99-153, start_time.rs lines    *)
(* 10-32): the element under the key of a field is absent, an item of the  *)
(* width of the field, an item of another length, or a tree.               *)
(***************************************************************************)
\* Drive::get_epoch_start_time (start_time.rs, lines 10-32); the u64 of
\* from_be_bytes is kept as its limbs, least significant first
get_epoch_start_time(g, epoch_pool) ==
    LET element == grove_get(g, <<epoch_pool.key>>, KEY_START_TIME)
    IN  IF element.kind = "Err" THEN element
        ELSE IF element.val.type = "Item"
        THEN IF Len(element.val.value) = U64Limbs
             THEN [kind |-> "Ok", val |-> Reverse(element.val.value)]
             ELSE Err("CorruptedStartTimeLength")
        ELSE Err("CorruptedStartTimeNotItem")

\* the elements found under the key of a field
FieldElements ==
    {Item(u64_to_le_bytes(1000)),
     Item(SubSeq(u64_to_le_bytes(1000), 1, U64Limbs - 1)),
     Item(u64_to_le_bytes(1000) \o <<0>>),
     EmptyTree}

FieldKeys == {KEY_START_TIME, KEY_START_BLOCK_HEIGHT}

EpochSubtrees == UNION {[ks -> FieldElements] : ks \in SUBSET FieldKeys}

\* the stores read from: without the fee-pools tree, or with the subtrees of
\* some epochs
EpochStores ==
    {None} \cup
    {Some(m) : m \in UNION {[ks -> EpochSubtrees] :
                              ks \in SUBSET {EpochPoolNew(index).key :
                                               index \in EpochIndexes}}}

EpochReadInit ==
    /\ feePools \in EpochStores
    /\ epochCalls = <<>>
    /\ epochRead = None

GetEpochStartTime ==
    \E index \in EpochIndexes :
        LET epoch_pool == EpochNew(index)
        IN  EpochReadResult("get_epoch_start_time", epoch_pool,
                            get_epoch_start_time(feePools, epoch_pool))

(***************************************************************************)
(* The field updates of an epoch pool called on their own (epoch_pool.rs,  *)
(* lines 85-97 and 155-169), among init_empty, mark_as_paid and the reads. *)
(***************************************************************************)
MaxFieldCalls == 3

\* i64 start times, the negative ones included, and u64 block heights
StartTimeValues == {-2, 0, 2147483647}

StartBlockHeightValues == {0, 1000}

UpdateStartTime ==
    \E index \in EpochIndexes, time \in StartTimeValues :
        LET pool == EpochPoolNew(index)
        IN  EpochWrite("update_start_time", pool,
                       [NoArgs EXCEPT !.start_time = time],
                       update_start_time(feePools, pool, time))

UpdateStartBlockHeight ==
    \E index \in EpochIndexes, start_block_height \in StartBlockHeightValues :
        LET pool == EpochPoolNew(index)
        IN  EpochWrite("update_start_block_height", pool,
                       [NoArgs EXCEPT !.start_block_height = start_block_height],
                       update_start_block_height(feePools, pool,
                                                 start_block_height))

\* the calls made on the fields are bounded
FieldCallsLeft == Len(epochCalls) < MaxFieldCalls

(***************************************************************************)
(* Identity keys (src/drive/src/identity/key.rs): a key is a record of id, *)
(* key_type, purpose, security_level, readonly and public_key_bytes.       *)
(***************************************************************************)
\* the length below which from_bytes refuses a buffer (line 71)
MinSerializedKeyLen == 38

\* u8::from(bool)
u8_from_bool(b) == IF b THEN 1 ELSE 0

\* IdentityKey::serialize (lines 51-67)
IdentityKey_serialize(key) ==
    to_be_bytes(key.id)
        \o <<key.key_type, key.purpose, key.security_level,
             u8_from_bool(key.readonly)>>
        \o key.public_key_bytes

\* IdentityKey::from_bytes (lines 69-117): read_u16::<BigEndian>, four
\* read_u8 and read_to_end
IdentityKey_from_bytes(bytes) ==
    IF Len(bytes) < MinSerializedKeyLen THEN Err("CorruptedSerialization")
    ELSE [kind |-> "Ok",
          val |-> [id |-> 256 * bytes[1] + bytes[2],
                   key_type |-> bytes[3],
                   purpose |-> bytes[4],
                   security_level |-> bytes[5],
                   readonly |-> bytes[6] # 0,
                   public_key_bytes |-> SubSeq(bytes, 7, Len(bytes))]]

\* public keys of the lengths around the 32 bytes from_bytes counts on, the
\* empty one and the 33 bytes of a compressed ECDSA key
PublicKeyLengths == {0, 31, 32, 33}

PublicKeys ==
    {[i \in 1..n |-> fill] : n \in PublicKeyLengths, fill \in {0, 255}}

IdentityKeys ==
    {[id |-> id, key_type |-> key_type, purpose |-> purpose,
      security_level |-> security_level, readonly |-> readonly,
      public_key_bytes |-> public_key_bytes] :
        id \in {0, 1, 258, 65535}, key_type \in {0, 1}, purpose \in {0, 2},
        security_level \in {0, 3}, readonly \in BOOLEAN,
        public_key_bytes \in PublicKeys}

KeyParked ==
    /\ identityKey = None
    /\ keyBuffer = None
    /\ keyResult = None

KeyInit ==
    /\ identityKey \in {Some(k) : k \in IdentityKeys}
    /\ keyBuffer = None
    /\ keyResult = None

\* key.serialize()
SerializeKey ==
    /\ keyBuffer = None
    /\ keyBuffer' = Some(IdentityKey_serialize(identityKey.val))
    /\ UNCHANGED <<identityKey, keyResult>>

\* IdentityKey::from_bytes of the serialization
KeyFromBytes ==
    /\ keyBuffer # None
    /\ keyResult = None
    /\ keyResult' = Some(IdentityKey_from_bytes(keyBuffer.val))
    /\ UNCHANGED <<identityKey, keyBuffer>>

(***************************************************************************)
(* Specifications.                                                         *)
(***************************************************************************)
LaterParked ==
    /\ EpochParked /\ UniqParked /\ WithdrawalParked /\ OperationsParked
    /\ ContractParked /\ PairParked /\ LoopParked /\ KeyParked

InitFlags ==
    FlagsInit /\ FeeParked /\ CalcParked /\ WorkerParked /\ LaterParked

NextFlags ==
    \/ Serialize /\ UNCHANGED <<feeVars, calcVars, workerVars, laterVars>>
    \/ Deserialize /\ UNCHANGED <<feeVars, calcVars, workerVars, laterVars>>

SpecFlags == InitFlags /\ [][NextFlags]_vars

InitFee ==
    FeeInit /\ FlagsParked /\ CalcParked /\ WorkerParked /\ LaterParked

NextFee ==
    \/ AddPairs /\ UNCHANGED <<flagVars, calcVars, workerVars, laterVars>>
    \/ AddTriples /\ UNCHANGED <<flagVars, calcVars, workerVars, laterVars>>

SpecFee == InitFee /\ [][NextFee]_vars

InitCalcFee ==
    CalcInit /\ FlagsParked /\ FeeParked /\ WorkerParked /\ LaterParked

NextCalcFee == CalculateFee /\ UNCHANGED <<flagVars, feeVars, workerVars, laterVars>>

SpecCalcFee == InitCalcFee /\ [][NextCalcFee]_vars

InitWorker ==
    WorkerInit /\ FlagsParked /\ FeeParked /\ CalcParked /\ LaterParked

OtherVars == <<flagVars, feeVars, calcVars, laterVars>>

NextWorker ==
    \/ \E c \in Callers : JsClose(c) /\ UNCHANGED OtherVars
    \/ \E c \in Callers : JsFlush(c) /\ UNCHANGED OtherVars
    \/ \E c \in Callers : JsStartTransaction(c) /\ UNCHANGED OtherVars
    \/ \E c \in Callers : JsCommitTransaction(c) /\ UNCHANGED OtherVars
    \/ \E c \in Callers : JsRollbackTransaction(c) /\ UNCHANGED OtherVars
    \/ \E c \in Callers : JsAbortTransaction(c) /\ UNCHANGED OtherVars
    \/ \E c \in Callers : JsGet(c) /\ UNCHANGED OtherVars
    \/ \E c \in Callers : JsInsert(c) /\ UNCHANGED OtherVars
    \/ HandleCallback /\ UNCHANGED OtherVars
    \/ HandleClose /\ UNCHANGED OtherVars
    \/ HandleFlush /\ UNCHANGED OtherVars
    \/ HandleStartTransaction /\ UNCHANGED OtherVars
    \/ HandleCommitTransaction /\ UNCHANGED OtherVars
    \/ HandleRollbackTransaction /\ UNCHANGED OtherVars
    \/ HandleAbortTransaction /\ UNCHANGED OtherVars

SpecWorker == InitWorker /\ [][NextWorker]_vars

\* one iteration of the worker loop (lines 104-186): rx.recv() and the arm of
\* the match that handles the message
WorkerStep ==
    /\ \/ HandleCallback
       \/ HandleClose
       \/ HandleFlush
       \/ HandleStartTransaction
       \/ HandleCommitTransaction
       \/ HandleRollbackTransaction
       \/ HandleAbortTransaction
    /\ UNCHANGED OtherVars

\* the worker thread is scheduled fairly: a message waiting in the channel of
\* a running worker is eventually taken
SpecWorkerFair == SpecWorker /\ WF_vars(WorkerStep)

\* the worker loop with the entry and the return of a handler apart
OtherThanLoop ==
    <<flagVars, feeVars, calcVars, epochVars, uniqVars, withdrawalVars,
      operationVars, contractVars, pairVars, keyVars>>

NextWorkerLoop ==
    \/ \E c \in Callers : JsClose(c) /\ UNCHANGED OtherVars
    \/ \E c \in Callers : JsFlush(c) /\ UNCHANGED OtherVars
    \/ \E c \in Callers : JsStartTransaction(c) /\ UNCHANGED OtherVars
    \/ \E c \in Callers : JsCommitTransaction(c) /\ UNCHANGED OtherVars
    \/ \E c \in Callers : JsRollbackTransaction(c) /\ UNCHANGED OtherVars
    \/ \E c \in Callers : JsAbortTransaction(c) /\ UNCHANGED OtherVars
    \/ \E c \in Callers : JsGet(c) /\ UNCHANGED OtherVars
    \/ \E c \in Callers : JsInsert(c) /\ UNCHANGED OtherVars
    \/ EnterHandler /\ UNCHANGED OtherThanLoop
    \/ HandleCallback /\ HandlerReturns /\ UNCHANGED OtherThanLoop
    \/ HandleClose /\ HandlerReturns /\ UNCHANGED OtherThanLoop
    \/ HandleFlush /\ HandlerReturns /\ UNCHANGED OtherThanLoop
    \/ HandleStartTransaction /\ HandlerReturns /\ UNCHANGED OtherThanLoop
    \/ HandleCommitTransaction /\ HandlerReturns /\ UNCHANGED OtherThanLoop
    \/ HandleRollbackTransaction /\ HandlerReturns /\ UNCHANGED OtherThanLoop
    \/ HandleAbortTransaction /\ HandlerReturns /\ UNCHANGED OtherThanLoop

SpecWorkerLoop == InitWorker /\ [][NextWorkerLoop]_vars

CoreParked == FlagsParked /\ FeeParked /\ CalcParked /\ WorkerParked

coreVars == <<flagVars, feeVars, calcVars, workerVars>>

InitEpoch ==
    /\ EpochInit /\ CoreParked
    /\ UniqParked /\ WithdrawalParked /\ OperationsParked /\ ContractParked /\ PairParked /\ LoopParked /\ KeyParked

NextEpoch ==
    \/ InitEmpty
          /\ UNCHANGED <<coreVars, uniqVars, withdrawalVars, operationVars, contractVars, pairVars, loopVars, keyVars>>
    \/ InitCurrent
          /\ UNCHANGED <<coreVars, uniqVars, withdrawalVars, operationVars, contractVars, pairVars, loopVars, keyVars>>
    \/ MarkAsPaid
          /\ UNCHANGED <<coreVars, uniqVars, withdrawalVars, operationVars, contractVars, pairVars, loopVars, keyVars>>
    \/ GetStartTime
          /\ UNCHANGED <<coreVars, uniqVars, withdrawalVars, operationVars, contractVars, pairVars, loopVars, keyVars>>
    \/ GetStartBlockHeight
          /\ UNCHANGED <<coreVars, uniqVars, withdrawalVars, operationVars, contractVars, pairVars, loopVars, keyVars>>
    \/ GetStorageFee
          /\ UNCHANGED <<coreVars, uniqVars, withdrawalVars, operationVars, contractVars, pairVars, loopVars, keyVars>>
    \/ GetFeeMultiplier
          /\ UNCHANGED <<coreVars, uniqVars, withdrawalVars, operationVars, contractVars, pairVars, loopVars, keyVars>>

SpecEpoch == InitEpoch /\ [][NextEpoch]_vars

\* reads of a store that may hold malformed elements
InitEpochRead ==
    /\ EpochReadInit /\ CoreParked
    /\ UniqParked /\ WithdrawalParked /\ OperationsParked /\ ContractParked
    /\ PairParked /\ LoopParked /\ KeyParked

OtherThanEpoch ==
    <<coreVars, uniqVars, withdrawalVars, operationVars, contractVars,
      pairVars, loopVars, keyVars>>

NextEpochRead ==
    \/ GetStartTime /\ UNCHANGED OtherThanEpoch
    \/ GetStartBlockHeight /\ UNCHANGED OtherThanEpoch
    \/ GetEpochStartTime /\ UNCHANGED OtherThanEpoch

SpecEpochRead == InitEpochRead /\ [][NextEpochRead]_vars

\* the field updates among the other calls on epoch pools
InitEpochFields ==
    /\ EpochInit /\ CoreParked
    /\ UniqParked /\ WithdrawalParked /\ OperationsParked /\ ContractParked
    /\ PairParked /\ LoopParked /\ KeyParked

NextEpochFields ==
    \/ FieldCallsLeft /\ InitEmpty /\ UNCHANGED OtherThanEpoch
    \/ FieldCallsLeft /\ UpdateStartTime /\ UNCHANGED OtherThanEpoch
    \/ FieldCallsLeft /\ UpdateStartBlockHeight /\ UNCHANGED OtherThanEpoch
    \/ FieldCallsLeft /\ MarkAsPaid /\ UNCHANGED OtherThanEpoch
    \/ GetStartTime /\ UNCHANGED OtherThanEpoch
    \/ GetStartBlockHeight /\ UNCHANGED OtherThanEpoch

SpecEpochFields == InitEpochFields /\ [][NextEpochFields]_vars

\* an identity key serialized and read back
InitIdentityKey ==
    /\ KeyInit /\ CoreParked
    /\ EpochParked /\ UniqParked /\ WithdrawalParked /\ OperationsParked
    /\ ContractParked /\ PairParked /\ LoopParked

OtherThanKey ==
    <<coreVars, epochVars, uniqVars, withdrawalVars, operationVars,
      contractVars, pairVars, loopVars>>

NextIdentityKey ==
    \/ SerializeKey /\ UNCHANGED OtherThanKey
    \/ KeyFromBytes /\ UNCHANGED OtherThanKey

SpecIdentityKey == InitIdentityKey /\ [][NextIdentityKey]_vars

InitUniq ==
    /\ UniqInit /\ CoreParked
    /\ EpochParked /\ WithdrawalParked /\ OperationsParked /\ ContractParked /\ PairParked /\ LoopParked /\ KeyParked

NextUniq ==
    \/ PrepareQueries
          /\ UNCHANGED <<coreVars, epochVars, withdrawalVars, operationVars, contractVars, pairVars, loopVars, keyVars>>
    \/ CompleteFetch
          /\ UNCHANGED <<coreVars, epochVars, withdrawalVars, operationVars, contractVars, pairVars, loopVars, keyVars>>
    \/ JoinAndValidate
          /\ UNCHANGED <<coreVars, epochVars, withdrawalVars, operationVars, contractVars, pairVars, loopVars, keyVars>>
    \/ CommitBatch
          /\ UNCHANGED <<coreVars, epochVars, withdrawalVars, operationVars, contractVars, pairVars, loopVars, keyVars>>

SpecUniq == InitUniq /\ [][NextUniq]_vars

InitWithdrawal ==
    /\ WithdrawalInit /\ CoreParked
    /\ EpochParked /\ UniqParked /\ OperationsParked /\ ContractParked /\ PairParked /\ LoopParked /\ KeyParked

NextWithdrawal ==
    \/ \E a \in Applications :
          FetchLatestWithdrawalIndex(a)
            /\ UNCHANGED <<coreVars, epochVars, uniqVars, operationVars, contractVars, pairVars, loopVars, keyVars>>
    \/ \E a \in Applications :
          EnqueueWithdrawal(a)
            /\ UNCHANGED <<coreVars, epochVars, uniqVars, operationVars, contractVars, pairVars, loopVars, keyVars>>
    \/ \E a \in Applications :
          FetchIdentity(a)
            /\ UNCHANGED <<coreVars, epochVars, uniqVars, operationVars, contractVars, pairVars, loopVars, keyVars>>
    \/ \E a \in Applications :
          UpdateIdentity(a)
            /\ UNCHANGED <<coreVars, epochVars, uniqVars, operationVars, contractVars, pairVars, loopVars, keyVars>>

SpecWithdrawal == InitWithdrawal /\ [][NextWithdrawal]_vars

InitOperations ==
    /\ OperationsInit /\ CoreParked
    /\ EpochParked /\ UniqParked /\ WithdrawalParked /\ ContractParked /\ PairParked /\ LoopParked /\ KeyParked

NextOperations ==
    ApplyDriveOperations
        /\ UNCHANGED <<coreVars, epochVars, uniqVars, withdrawalVars, contractVars, pairVars, loopVars, keyVars>>

SpecOperations == InitOperations /\ [][NextOperations]_vars

InitContract ==
    /\ ContractInit /\ CoreParked
    /\ EpochParked /\ UniqParked /\ WithdrawalParked /\ OperationsParked
    /\ PairParked /\ LoopParked /\ KeyParked

NextContract ==
    ValidateDataContract
        /\ UNCHANGED <<coreVars, epochVars, uniqVars, withdrawalVars,
                       operationVars, pairVars, loopVars, keyVars>>

SpecContract == InitContract /\ [][NextContract]_vars

\* two values serialized side by side
InitFlagsPair ==
    /\ PairInit /\ FeeParked /\ CalcParked /\ WorkerParked
    /\ EpochParked /\ UniqParked /\ WithdrawalParked /\ OperationsParked
    /\ ContractParked /\ LoopParked /\ KeyParked

OtherThanFlags ==
    <<feeVars, calcVars, workerVars, epochVars, uniqVars, withdrawalVars,
      operationVars, contractVars, loopVars, keyVars>>

NextFlagsPair ==
    \/ Serialize /\ UNCHANGED <<OtherThanFlags, pairVars>>
    \/ SerializeOther /\ UNCHANGED OtherThanFlags

SpecFlagsPair == InitFlagsPair /\ [][NextFlagsPair]_vars

\* deserialize on buffers that are not all encodings
InitDecode ==
    DecodeInit /\ FeeParked /\ CalcParked /\ WorkerParked /\ LaterParked

NextDecode ==
    Deserialize /\ UNCHANGED <<feeVars, calcVars, workerVars, laterVars>>

SpecDecode == InitDecode /\ [][NextDecode]_vars

(***************************************************************************)
(* Claims.                                                                 *)
(***************************************************************************)
\* C1: for every StorageFlags value f of any of the four variants,
\* deserialize(serialize(f)) returns Ok(Some(f)).
FlagsRoundTrip ==
    codecPc = "deserialized" => (decoded.kind = "Some" /\ decoded.val = flags)

(***************************************************************************)
(* Reference arithmetic for the fee claims: exact sums in a width that     *)
(* cannot overflow, computed field by field over all operands at once.     *)
(***************************************************************************)
\* the sum of limb i over the numbers (no carries)
RECURSIVE ColumnSum(_, _)
ColumnSum(numbers, i) ==
    IF numbers = <<>> THEN 0
    ELSE (IF i <= Len(Head(numbers)) THEN Head(numbers)[i] ELSE 0)
         + ColumnSum(Tail(numbers), i)

\* the exact sum of fewer than 256 numbers of at most width - 1 limbs each
WideSum(numbers, width) ==
    Normalise([i \in 1..width |-> ColumnSum(numbers, i)], 1, 0)

\* the values the operands hold for (identifier, epoch), in operand order
RECURSIVE BytesAt(_, _, _)
BytesAt(operands, identifier, epoch) ==
    IF operands = <<>> THEN <<>>
    ELSE LET ids == Head(operands).removed_bytes_from_identities
         IN  (IF identifier \in DOMAIN ids /\ epoch \in DOMAIN ids[identifier]
              THEN <<ids[identifier][epoch]>> ELSE <<>>)
             \o BytesAt(Tail(operands), identifier, epoch)

Field(operands, name) == [i \in 1..Len(operands) |-> operands[i][name]]

IdsOf(operands) ==
    UNION {DOMAIN operands[i].removed_bytes_from_identities :
              i \in 1..Len(operands)}

EpochsOf(operands, identifier) ==
    UNION {DOMAIN operands[i].removed_bytes_from_identities[identifier] :
              i \in {j \in 1..Len(operands) : identifier \in
                        DOMAIN operands[j].removed_bytes_from_identities}}

\* no componentwise sum over the operands exceeds the width of its field
SumsFit(operands) ==
    /\ Fits(WideSum(Field(operands, "storage_fee"), U64Limbs + 1), U64Limbs)
    /\ Fits(WideSum(Field(operands, "processing_fee"), U64Limbs + 1), U64Limbs)
    /\ Fits(WideSum(Field(operands, "removed_bytes_from_system"), U32Limbs + 1),
            U32Limbs)
    /\ \A id \in IdsOf(operands) : \A e \in EpochsOf(operands, id) :
          Fits(WideSum(BytesAt(operands, id, e), U32Limbs + 1), U32Limbs)

\* the exact componentwise sum of the operands (meaningful when SumsFit)
ExactSum(operands) ==
    [storage_fee |->
        SubSeq(WideSum(Field(operands, "storage_fee"), U64Limbs + 1),
               1, U64Limbs),
     processing_fee |->
        SubSeq(WideSum(Field(operands, "processing_fee"), U64Limbs + 1),
               1, U64Limbs),
     removed_bytes_from_identities |->
        [id \in IdsOf(operands) |->
            [e \in EpochsOf(operands, id) |->
                SubSeq(WideSum(BytesAt(operands, id, e), U32Limbs + 1),
                       1, U32Limbs)]],
     removed_bytes_from_system |->
        SubSeq(WideSum(Field(operands, "removed_bytes_from_system"),
                       U32Limbs + 1), 1, U32Limbs)]

\* C2: for fee results a, b, c whose sums do not overflow,
\* checked_add_assign is commutative (a+b = b+a), associative
\* ((a+b)+c = a+(b+c)) and has FeeResult::default() as identity (a+0 = a),
\* on all four fields including the per-identity per-epoch map.
FeeAddAlgebra ==
    feePc = "triples" =>
        /\ SumsFit(<<feeA, feeB>>) =>
              /\ pairSums.ab.kind = "Ok"
              /\ pairSums.ba.kind = "Ok"
              /\ pairSums.ab.self = pairSums.ba.self
        /\ SumsFit(<<feeA, feeB, feeC>>) =>
              /\ tripleSums.ab_c.kind = "Ok"
              /\ tripleSums.a_bc.kind = "Ok"
              /\ tripleSums.ab_c.self = tripleSums.a_bc.self
        /\ pairSums.aZero.kind = "Ok"
        /\ pairSums.aZero.self = feeA

\* three distinct operands that share an identity, with disjoint and with
\* equal epochs among them, have been added both ways without overflow
FeeAddAlgebraWitness ==
    /\ feePc = "triples"
    /\ SumsFit(<<feeA, feeB, feeC>>)
    /\ tripleSums.ab_c.kind = "Ok"
    /\ 1 \in DOMAIN feeA.removed_bytes_from_identities
    /\ 1 \in DOMAIN feeB.removed_bytes_from_identities
    /\ 1 \in DOMAIN feeC.removed_bytes_from_identities
    /\ feeA.removed_bytes_from_identities[1]
          # feeB.removed_bytes_from_identities[1]
    /\ feeA.removed_bytes_from_identities[1]
          = feeC.removed_bytes_from_identities[1]
    /\ 2 \in DOMAIN feeB.removed_bytes_from_identities
    /\ 2 \notin DOMAIN feeA.removed_bytes_from_identities

CalcBaseOps == IF calcBaseOps.kind = "Some" THEN calcBaseOps.val ELSE <<>>

CalcDriveOps == IF calcDriveOps.kind = "Some" THEN calcDriveOps.val ELSE <<>>

\* the exact products cost x count of the base operations
CalcProducts ==
    [i \in 1..Len(CalcBaseOps) |->
        MulWide(CalcBaseOps[i].cost, CalcBaseOps[i].count)]

\* the operands calculate_fee adds up: the processing fee of the base
\* operations (exact, wide) and then the fee results of the drive operations
CalcProcessingTotal ==
    WideSum(CalcProducts \o Field(CalcDriveOps, "processing_fee"),
            2 * U64Limbs + 1)

CalcFits ==
    /\ Fits(CalcProcessingTotal, U64Limbs)
    /\ SumsFit(CalcDriveOps)

\* C3: calculate_fee and checked_add_assign return a Fee Overflow error
\* whenever a product cost x count or a componentwise sum exceeds the width
\* of its field (u64 fees, u32 bytes); they never return a wrapped or
\* saturated value, and when nothing overflows the result is the exact sum.
OverflowIsError ==
    calcPc = "done" =>
        /\ calcResult.kind = "Err" <=> ~CalcFits
        /\ calcResult.kind = "Ok" =>
              calcResult.val =
                  [ExactSum(CalcDriveOps) EXCEPT !.processing_fee =
                      SubSeq(CalcProcessingTotal, 1, U64Limbs)]

\* calculate_fee has failed on inputs where no single product and no single
\* operand is beyond its width: two products and a drive fee result whose
\* running sums overflow
OverflowIsErrorWitness ==
    /\ calcPc = "done"
    /\ calcResult.kind = "Err"
    /\ Len(CalcBaseOps) = 2
    /\ \A i \in 1..2 : Fits(CalcProducts[i], U64Limbs)
    /\ Fits(WideSum(CalcProducts, 2 * U64Limbs + 1), U64Limbs)
    /\ Len(CalcDriveOps) = 2
    /\ Fits(WideSum(Field(CalcDriveOps, "processing_fee"), U64Limbs + 1),
            U64Limbs)

\* C4: when checked_add_assign(a, b) returns an Overflow error, every field
\* of a, including its per-identity map, equals its value before the call.
AddAssignErrorLeavesSelf ==
    feePc \in {"pairs", "triples"} =>
        (pairSums.ab.kind = "Err" => pairSums.ab.self = feeA)


(***************************************************************************)
(* Claims about the transaction multiplexer.                               *)
(***************************************************************************)
Requests == 1..Len(requests)

\* the worker has taken request i off the channel
WasTaken(i) == \E n \in 1..Len(handled) : handled[n] = i

\* C5: the id handed to the caller by StartTransaction is the registry key
\* under which the newly started transaction is stored: looking the id up
\* in the registry, before the transaction is finalised, finds that
\* transaction.
StartedIdIsRegistryKey ==
    \A h \in handles :
        h.txn \notin finalised =>
            /\ h.id \in DOMAIN transactions
            /\ transactions[h.id].txn = h.txn

\* C6: a read issued without a transaction completes normally and returns
\* what has been committed: no value for a key that only an uncommitted
\* transaction has inserted, the inserted value once the commit of that
\* transaction has been handled.
ReadWithoutTransactionIsIsolated ==
    \A i \in Requests :
        (requests[i].kind = "Get" /\ requests[i].id = NoTx /\ WasTaken(i)) =>
            /\ outcome[i].state = "replied"
            /\ outcome[i].reply = outcome[i].expect

Finalisers == {"CommitTransaction", "RollbackTransaction", "AbortTransaction"}

\* C7: CommitTransaction, RollbackTransaction or AbortTransaction carrying
\* an id that is not in the registry reports an UnknownTransaction error to
\* the caller; it never reports success.
UnknownTransactionIsError ==
    \A i \in Requests :
        (requests[i].kind \in Finalisers /\ WasTaken(i)
         /\ ~outcome[i].found) =>
            /\ outcome[i].state = "replied"
            /\ outcome[i].reply = "UnknownTransaction"

IsAccepted(i) == outcome[i].state # "rejected"

\* the requests the channel accepted, in the order they were placed on it
Accepted == SelectSeq([i \in Requests |-> i], IsAccepted)

\* C8: the worker handles messages in exactly the order they were placed
\* on its queue, and the handling of one message is complete (its callback
\* has run, or it has brought the worker down) before the next is taken;
\* a message not yet taken has had no outcome.
HandledInQueueOrder ==
    /\ Len(handled) <= Len(Accepted)
    /\ \A n \in 1..Len(handled) :
          /\ handled[n] = Accepted[n]
          /\ outcome[handled[n]].state \in {"replied", "panicked"}
    /\ \A n \in (Len(handled) + 1)..Len(Accepted) :
          outcome[Accepted[n]].state \in {"queued", "dropped"}

\* the worker has handled two messages of one caller, the later of which
\* was placed on the queue while an earlier message was still waiting
HandledInQueueOrderWitness ==
    \E n \in 2..Len(handled) :
        /\ requests[handled[n]].caller = requests[handled[n - 1]].caller
        /\ requests[handled[n]].queuedBehind >= 1
        /\ requests[handled[n]].kind # requests[handled[n - 1]].kind

\* C9: every message submitted after a Close message has been submitted is
\* rejected to its caller; none is accepted by the queue and then dropped
\* without its completion callback ever running.
RejectedAfterClose ==
    \A i \in Requests :
        requests[i].afterClose => outcome[i].state = "rejected"

\* C10: if a callback panics on the worker, every caller with an
\* outstanding request receives a WorkerFailed reply (no request is left
\* without its callback) and the registry ends up empty.
PanicFailsOutstandingRequests ==
    worker = "panicked" =>
        /\ \A i \in Requests :
              /\ outcome[i].state \in {"replied", "rejected"}
              /\ (WasTaken(i) /\ handled[Len(handled)] = i) =>
                    outcome[i].reply = "WorkerFailed"
        /\ transactions = NoTransactions

\* a backend call (flush, commit, rollback) has returned an error
BackendFailed ==
    \E i \in Requests :
        /\ requests[i].kind \in {"Flush", "CommitTransaction",
                                 "RollbackTransaction"}
        /\ outcome[i].state = "panicked"

\* C11: with the worker scheduled fairly and no backend call failing, every
\* message submitted before any Close is eventually handled to completion and
\* the completion callback of its caller is invoked.
SubmittedIsEventuallyHandled ==
    ([]~BackendFailed) =>
        \A i \in 1..MaxRequests :
            (i \in Requests /\ ~requests[i].afterClose)
                ~> (i \in Requests /\ outcome[i].state = "replied")

\* the calls made on the epoch with this index, oldest first
CallsOn(index) ==
    LET OnIndex(call) == call.index = index
    IN  SelectSeq(epochCalls, OnIndex)

OpsOn(index) == [n \in 1..Len(CallsOn(index)) |-> CallsOn(index)[n].op]

LifecycleOps == <<"init_empty", "init_current", "mark_as_paid">>

\* the calls on the epoch so far are the first steps of its life cycle, each
\* made once and successful
AlongLifecycle(index) ==
    /\ Len(CallsOn(index)) <= Len(LifecycleOps)
    /\ OpsOn(index) = SubSeq(LifecycleOps, 1, Len(CallsOn(index)))
    /\ \A n \in 1..Len(CallsOn(index)) : CallsOn(index)[n].ok

LifecycleStates == <<"empty", "current", "paid">>

\* the state of an epoch along its life cycle
LifecycleState(index) ==
    IF CallsOn(index) = <<>> THEN "none"
    ELSE LifecycleStates[Len(CallsOn(index))]

\* the last read was made on this epoch with this method
ReadOf(op, index) ==
    /\ epochRead.kind = "Some"
    /\ epochRead.val.op = op
    /\ epochRead.val.index = index

IsNotFound(result) ==
    /\ result.kind = "Err"
    /\ result.err \in {"PathNotFound", "PathKeyNotFound"}

EpochContents(index) ==
    IF PathExists(feePools, <<EpochPoolNew(index).key>>)
    THEN DOMAIN feePools.val[EpochPoolNew(index).key]
    ELSE {}

HasSucceeded(op, index) ==
    \E n \in 1..Len(CallsOn(index)) :
        CallsOn(index)[n].op = op /\ CallsOn(index)[n].ok

\* C13: across any sequence of init_empty, init_current and mark_as_paid
\* calls on one epoch, the epoch only moves forward: once paid, its
\* processing_fee, storage_fee and proposers subtree never exist again, and
\* once current it is never back in the empty state (storage_fee alone).
LifecycleOnlyForward ==
    \A e \in EpochIndexes :
        /\ HasSucceeded("mark_as_paid", e) =>
              EpochContents(e) \cap {KEY_PROCESSING_FEE, KEY_STORAGE_FEE,
                                     KEY_PROPOSERS} = {}
        /\ HasSucceeded("init_current", e) =>
              EpochContents(e) # {KEY_STORAGE_FEE}

\* C14: in every state of an epoch e along its life cycle, get_storage_fee(e)
\* returns a value exactly when e is empty or current and get_start_time(e)
\* exactly when e is current; in every other state (not created, empty for
\* the start time, paid) the read returns a not-found error.
ReadsDefinedByState ==
    \A e \in EpochIndexes :
        AlongLifecycle(e) =>
            /\ ReadOf("get_storage_fee", e) =>
                  IF LifecycleState(e) \in {"empty", "current"}
                  THEN epochRead.val.result.kind = "Ok"
                  ELSE IsNotFound(epochRead.val.result)
            /\ ReadOf("get_start_time", e) =>
                  IF LifecycleState(e) = "current"
                  THEN epochRead.val.result.kind = "Ok"
                  ELSE IsNotFound(epochRead.val.result)

\* bytewise (lexicographic) order of two 2-byte keys
KeyLess(a, b) == a[1] < b[1] \/ (a[1] = b[1] /\ a[2] < b[2])

\* C15: the subtree key built for an epoch index, by EpochPool::new and by
\* Epoch::new alike, is the 2-byte big-endian encoding of the index, so that
\* the keys of two indexes sort bytewise as the indexes do.
EpochKeysBigEndian ==
    \A m, n \in 1..Len(epochCalls) :
        /\ epochCalls[n].key = to_be_bytes(epochCalls[n].index)
        /\ EpochNew(epochCalls[n].index).key
              = to_be_bytes(epochCalls[n].index)
        /\ epochCalls[m].index < epochCalls[n].index =>
              /\ KeyLess(epochCalls[m].key, epochCalls[n].key)
              /\ KeyLess(EpochNew(epochCalls[m].index).key,
                         EpochNew(epochCalls[n].index).key)

\* the values a document has for the properties of an index
IndexTuple(document, index) ==
    [n \in 1..Len(index.properties) |-> document.fields[index.properties[n]]]

Validated ==
    /\ uniqPc \in {"next", "done", "committed"}
    /\ fetches # <<>>

ValidatedPos == fetches[1].meta.transition_position

\* the errors the validation of that transition has added
ErrorsOfValidated ==
    LET OfValidated(error) == error.from.transition = ValidatedPos
    IN  SelectSeq(validationErrors, OfValidated)

\* a query result other than nothing and other than the origin alone
IsDuplicate(documents, id) ==
    /\ documents # {}
    /\ documents # {document \in documents : document.id = id}
          \/ Cardinality(documents) > 1

\* the number of errors with this document id and these properties
CountErrors(errors, id, properties) ==
    Cardinality({n \in 1..Len(errors) :
                    /\ errors[n].document_id = id
                    /\ errors[n].duplicating_properties = properties})

\* C17: for each document transition and each unique index of its document
\* type, the check adds a DuplicateUniqueIndex error with the transition's
\* document id and the index's property names if and only if the index query
\* returns a non-empty result that is not exactly one document with the
\* transition's id; an empty result or the own document alone adds none, and
\* neither does an index that is not unique or was not queried.
DuplicateErrorIffConflict ==
    Validated =>
        LET transition == batch[ValidatedPos]
            indices == DocumentIndices[transition.document_type]
            Fetched(n) == {k \in 1..Len(fetches) :
                              fetches[k].meta.index_position = n}
        IN  /\ \A n \in 1..Len(indices) :
                  CountErrors(ErrorsOfValidated, transition.id,
                              indices[n].properties)
                    = IF /\ indices[n].unique
                         /\ \E k \in Fetched(n) :
                               IsDuplicate(fetches[k].result.val,
                                           transition.id)
                      THEN 1 ELSE 0
            /\ \A n \in 1..Len(ErrorsOfValidated) :
                  /\ ErrorsOfValidated[n].document_id = transition.id
                  /\ \E i \in 1..Len(indices) :
                        ErrorsOfValidated[n].duplicating_properties
                           = indices[i].properties

\* a transition has been validated whose one query found another document
\* and whose other query found the origin document alone
DuplicateErrorIffConflictWitness ==
    /\ Validated
    /\ Len(ErrorsOfValidated) = 1
    /\ \E k \in 1..Len(fetches) :
          /\ Cardinality(fetches[k].result.val) = 1
          /\ \A document \in fetches[k].result.val :
                document.id = batch[ValidatedPos].id
    /\ \E k \in 1..Len(fetches) :
          /\ Cardinality(fetches[k].result.val) = 1
          /\ \A document \in fetches[k].result.val :
                document.id # batch[ValidatedPos].id

\* C18: whatever order the parallel index queries complete in, the merged
\* result lists the DuplicateUniqueIndex errors in transition order and,
\* within one transition, in unique-index order, and each error carries the
\* id of the transition and the properties of the index whose query
\* produced it.
ErrorsInOrderAndAttributed ==
    uniqPc \in {"done", "committed"} =>
        /\ \A n \in 1..Len(validationErrors) :
              LET error == validationErrors[n]
                  transition == batch[error.from.transition]
              IN  /\ error.document_id = transition.id
                  /\ error.duplicating_properties
                        = DocumentIndices[transition.document_type]
                              [error.from.index].properties
        /\ \A m, n \in 1..Len(validationErrors) :
              m < n =>
                  LET first == validationErrors[m].from
                      second == validationErrors[n].from
                  IN  \/ first.transition < second.transition
                      \/ /\ first.transition = second.transition
                         /\ first.index < second.index

\* two transitions have raised two errors each, the queries of the second
\* having completed in the reverse of their order
ErrorsInOrderAndAttributedWitness ==
    /\ uniqPc = "done"
    /\ Len(validationErrors) = 4
    /\ completionOrder = <<2, 1>>

\* C19: applying a withdrawal transition is all-or-nothing: if any step
\* fails (identity not found, encoding fails, identity update fails), the
\* withdrawal queue holds no record enqueued by that application and the
\* balance of the identity has not been changed by it.
WithdrawalAllOrNothing ==
    \A a \in Applications :
        applications[a].pc = "failed" =>
            /\ \A index \in DOMAIN withdrawalQueue :
                  withdrawalQueue[index].by # a
            /\ a \notin debited

\* the call of apply_drive_operations has returned
DriveCallReturned == driveCall.outcome.kind = "Some"

\* the lowerings the call ran that failed
FailedLowerings ==
    {i \in 1..Len(driveCall.outcome.val.lowered) :
        driveCall.outcome.val.lowered[i].kind = "Err"}

\* C20: if lowering any high-level operation of a batch fails,
\* apply_drive_operations returns that error without applying any low-level
\* operation of any operation of the batch: no batch is handed to the
\* backend and the backend is as it was before the call, also where earlier
\* operations of the batch were lowered successfully.
LoweringFailureAppliesNothing ==
    (DriveCallReturned /\ FailedLowerings # {}) =>
        /\ \E i \in FailedLowerings :
              driveCall.outcome.val.result = driveCall.outcome.val.lowered[i]
        /\ driveCall.outcome.val.handed = None
        /\ driveState = driveCall.before

\* a call with apply set whose first operation was lowered to operations
\* that would have changed the backend and whose second lowering failed
LoweringFailureAppliesNothingWitness ==
    /\ DriveCallReturned
    /\ driveCall.apply
    /\ Len(driveCall.outcome.val.lowered) = 2
    /\ driveCall.outcome.val.lowered[1].kind = "Ok"
    /\ ApplyLowLevelOps(driveCall.before,
                        driveCall.outcome.val.lowered[1].val)
          \notin {None, Some(driveCall.before)}
    /\ driveCall.outcome.val.lowered[2].kind = "Err"
    /\ driveCall.outcome.val.result = driveCall.outcome.val.lowered[2]

\* DataContractValidator::validate has returned
ContractValidated == contractResult.kind = "Some"

\* the errors of the returned result that satisfy a test
ContractErrors(test(_)) ==
    {n \in 1..Len(contractResult.val) : test(contractResult.val[n])}

\* the number of unique indices the document type at position n declares
UniqueIndexCount(n) ==
    LET document_schema == rawDataContract.val.documents[n]
    IN  IF document_schema.indices.kind = "None" THEN 0
        ELSE Cardinality({i \in 1..Len(document_schema.indices.val) :
                             document_schema.indices.val[i].unique})

\* the UniqueIndicesLimitReached errors for the document type at position n
LimitReachedErrors(n) ==
    LET hit(e) ==
            /\ e.code = "UniqueIndicesLimitReachedError"
            /\ e.document_type = rawDataContract.val.documents[n].document_type
    IN  ContractErrors(hit)

\* validation ended before the index checks of the document type at
\* position n: a schema stage rejected the contract, or an index of an
\* earlier document type names an undefined property
EndedBefore(n) ==
    LET ended(e) ==
            \/ e.code = "JsonSchemaError"
            \/ /\ e.code = "UndefinedIndexPropertyError"
               /\ \E m \in 1..(n - 1) :
                     e.document_type =
                         rawDataContract.val.documents[m].document_type
    IN  ContractErrors(ended) # {}

UnboundedIndexedStrings ==
    {t \in (1..2) \X (1..(MaxUniqueIndices + 2)) \X {"a", "b"} :
        /\ t[1] <= Len(rawDataContract.val.documents)
        /\ LET document_schema == rawDataContract.val.documents[t[1]]
           IN  /\ document_schema.indices.kind = "Some"
               /\ t[2] <= Len(document_schema.indices.val)
               /\ \E i \in 1..Len(document_schema.indices.val[t[2]].properties) :
                     document_schema.indices.val[t[2]].properties[i] = t[3]
               /\ document_schema.properties[t[3]].type = "string"
               /\ \/ document_schema.properties[t[3]].maxLength = None
                  \/ document_schema.properties[t[3]].maxLength.val > 63}

\* C22: validate returns an invalid result for every contract in which some
\* index names a string-typed property that declares no maxLength or a
\* maxLength greater than 63: no contract with such an index validates as
\* valid.
IndexedStringsAreBounded ==
    (ContractValidated /\ UnboundedIndexedStrings # {}) =>
        contractResult.val # <<>>

\* the index at position i of the document type at position n has two or more
\* properties, some but not all of them required
MixedCompoundIndex(n, i) ==
    LET document_schema == rawDataContract.val.documents[n]
        fields == document_schema.indices.val[i].properties
    IN  /\ Len(fields) > 1
        /\ \E f \in 1..Len(fields) : fields[f] \in document_schema.required
        /\ \E f \in 1..Len(fields) : fields[f] \notin document_schema.required

InvalidCompoundIndexErrors(n, i) ==
    LET hit(e) ==
            /\ e.code = "InvalidCompoundIndexError"
            /\ e.document_type = rawDataContract.val.documents[n].document_type
            /\ e.index_definition =
                  rawDataContract.val.documents[n].indices.val[i].name
    IN  ContractErrors(hit)

\* the index checks ran to their end: no schema stage rejected the contract
\* and no index names an undefined property
IndexChecksCompleted ==
    LET ended(e) ==
            e.code \in {"JsonSchemaError", "UndefinedIndexPropertyError"}
    IN  ContractValidated /\ ContractErrors(ended) = {}

\* C23: for a document type whose compound index has some but not all of its
\* properties in the required list, validate returns exactly one
\* InvalidCompoundIndex error for that document type and index; an index whose
\* properties are all required or all optional produces no such error.
MixedCompoundIndexIsRejected ==
    IndexChecksCompleted =>
        \A n \in 1..Len(rawDataContract.val.documents) :
            rawDataContract.val.documents[n].indices.kind = "Some" =>
                \A i \in 1..Len(rawDataContract.val.documents[n].indices.val) :
                    Cardinality(InvalidCompoundIndexErrors(n, i)) =
                        IF MixedCompoundIndex(n, i) THEN 1 ELSE 0

\* C24: two StorageFlags values are equal if and only if their
\* serialisations are byte-for-byte equal: equal values (also with epoch maps
\* whose iteration orders differ) always serialise to the same bytes, and
\* different values never serialise to the same bytes.
EqualIffSerialisationsEqual ==
    (codecPc = "serialized" /\ bufferB.kind = "Some") =>
        ((flags = flagsB) <=> (buffer = bufferB.val))

\* C25: serialize emits the (epoch, varint bytes) entries of a MultiEpoch or
\* MultiEpochOwned value in strictly increasing epoch order, for every epoch
\* map.
EntriesInIncreasingEpochOrder ==
    (codecPc # "input" /\ HasEpochMap(flags)) =>
        buffer = serialize(flags, SortedKeys(DOMAIN flags.epoch_map))

RECURSIVE EntriesComplete(_, _)
\* the bytes of data from position i on are complete (epoch, varint) entries:
\* two bytes of epoch and a varint of at most 5 bytes ending in a byte
\* below 128, up to the last byte
EntriesComplete(data, i) ==
    IF i = Len(data) + 1 THEN TRUE
    ELSE LET ends == {j \in (i + 2)..(i + 6) :
                         /\ j <= Len(data)
                         /\ data[j] < 128
                         /\ \A k \in (i + 2)..(j - 1) : data[k] >= 128}
         IN  /\ ends # {}
             /\ EntriesComplete(data, (CHOOSE j \in ends : TRUE) + 1)

\* a non-empty buffer that is not a complete encoding: a tag above 3, a
\* length incompatible with the tag, or entries that do not end with the
\* buffer (a truncated varint, or leftover bytes after the last entry)
IncompleteEncoding(data) ==
    /\ data # <<>>
    /\ \/ data[1] > 3
       \/ data[1] = 0 /\ Len(data) # 3
       \/ data[1] = 2 /\ Len(data) # 35
       \/ data[1] = 1 /\ Len(data) < 6
       \/ data[1] = 3 /\ Len(data) < 38
       \/ data[1] = 1 /\ Len(data) >= 6 /\ ~EntriesComplete(data, 4)
       \/ data[1] = 3 /\ Len(data) >= 38 /\ ~EntriesComplete(data, 36)

\* C26: deserialize returns an error, never Ok(Some(_)), for every non-empty
\* buffer that is not a complete encoding.
IncompleteIsError ==
    (codecPc = "deserialized" /\ IncompleteEncoding(buffer)) =>
        decoded.kind = "Err"

\* the per-identity map a successful x += y left in x: the identifiers of
\* both, for each the epochs of both, and at each epoch the sum of the two
\* sides' values there, a missing side counting as 0
IdentitiesAreSum(sum, x, y) ==
    LET left == sum.self.removed_bytes_from_identities
        xs == x.removed_bytes_from_identities
        ys == y.removed_bytes_from_identities
        epochs(ids, id) == IF id \in DOMAIN ids THEN DOMAIN ids[id] ELSE {}
    IN  sum.kind = "Ok" =>
            /\ DOMAIN left = DOMAIN xs \cup DOMAIN ys
            /\ \A id \in DOMAIN left :
                  /\ DOMAIN left[id] = epochs(xs, id) \cup epochs(ys, id)
                  /\ \A e \in DOMAIN left[id] :
                        Widen(left[id][e], U32Limbs + 1) =
                            WideSum(BytesAt(<<x, y>>, id, e), U32Limbs + 1)

\* C27: after checked_add_assign(a, b) succeeds,
\* a.removed_bytes_from_identities has exactly the union of the identifiers
\* of a and b; for each identifier its inner map has exactly the union of the
\* epoch keys of both sides, with the value at an epoch equal to the sum of
\* the two sides' values there.
IdentitiesCombineByUnionAndSum ==
    feePc # "input" =>
        /\ IdentitiesAreSum(pairSums.ab, feeA, feeB)
        /\ IdentitiesAreSum(pairSums.ba, feeB, feeA)
        /\ IdentitiesAreSum(pairSums.bc, feeB, feeC)

\* a += b succeeded where identity 1 is on both sides with the same epoch
\* and identity 2 is on both sides with different epochs, and b += c
\* succeeded where b has an identity c does not have
IdentitiesCombineByUnionAndSumWitness ==
    /\ feePc # "input"
    /\ pairSums.ab.kind = "Ok"
    /\ {1, 2} \subseteq DOMAIN feeA.removed_bytes_from_identities
    /\ {1, 2} \subseteq DOMAIN feeB.removed_bytes_from_identities
    /\ DOMAIN feeA.removed_bytes_from_identities[1]
          = DOMAIN feeB.removed_bytes_from_identities[1]
    /\ DOMAIN feeA.removed_bytes_from_identities[2]
          # DOMAIN feeB.removed_bytes_from_identities[2]
    /\ Cardinality(DOMAIN pairSums.ab.self.removed_bytes_from_identities[2]) = 2
    /\ pairSums.bc.kind = "Ok"
    /\ DOMAIN feeB.removed_bytes_from_identities
          \ DOMAIN feeC.removed_bytes_from_identities # {}

\* C28: a transaction that was started and has not been committed, rolled
\* back or aborted is still in the registry, under a key of its own: handling
\* a later StartTransaction does not remove or replace it.
LiveTransactions == {h.txn : h \in handles} \ finalised

RegisteredUnder(txn) ==
    {k \in DOMAIN transactions : transactions[k].txn = txn}

StartKeepsLiveTransactions ==
    \A txn \in LiveTransactions : RegisteredUnder(txn) # {}

\* C29: at most one message handler is running at any moment, whatever the
\* callers submit meanwhile: a handler is entered only when the one before it
\* has returned.
OneHandlerAtATime == handlersRunning <= 1

\* a handler is running while two more messages, of two callers, wait
OneHandlerAtATimeWitness ==
    /\ handlersRunning = 1
    /\ Len(queue) = 3
    /\ requests[queue[2]].caller # requests[queue[3]].caller
    /\ Len(handled) = 0

\* C30: once init_empty(e) has succeeded, which needs the fee-pools tree to
\* exist, the subtree of epoch e exists and get_storage_fee(e) returns 0.
JustInitialisedEmpty(e) ==
    /\ epochCalls # <<>>
    /\ epochCalls[Len(epochCalls)].op = "init_empty"
    /\ epochCalls[Len(epochCalls)].index = e
    /\ epochCalls[Len(epochCalls)].ok

InitEmptyGivesZeroStorageFee ==
    \A e \in EpochIndexes :
        JustInitialisedEmpty(e) =>
            /\ PathExists(feePools, <<>>)
            /\ PathExists(feePools, <<EpochPoolNew(e).key>>)
            /\ get_storage_fee(feePools, EpochPoolNew(e))
                  = [kind |-> "Ok", val |-> 0]
            /\ ReadOf("get_storage_fee", e) =>
                  epochRead.val.result = [kind |-> "Ok", val |-> 0]

\* the storage fee of an epoch has been read right after the epoch, paid
\* before, was initialised again
InitEmptyGivesZeroStorageFeeWitness ==
    \E e \in EpochIndexes :
        /\ JustInitialisedEmpty(e)
        /\ HasSucceeded("mark_as_paid", e)
        /\ ReadOf("get_storage_fee", e)

\* the field a read is of, and the error variants that name a field
FieldOfRead(op) ==
    IF op = "get_start_block_height" THEN "start_block_height"
    ELSE "start_time"

\* the pool a read was made on: Drive::get_epoch_start_time takes the
\* EpochPool of fee_pools/epochs
PoolOfRead(op, index) ==
    IF op = "get_epoch_start_time" THEN EpochNew(index)
    ELSE EpochPoolNew(index)

KeyOfField(field) ==
    IF field = "start_time" THEN KEY_START_TIME ELSE KEY_START_BLOCK_HEIGHT

LengthErrorOf(field) ==
    IF field = "start_time" THEN "CorruptedStartTimeLength"
    ELSE "CorruptedFirstProposedBlockHeightItemLength"

NotItemErrorOf(field) ==
    IF field = "start_time" THEN "CorruptedStartTimeNotItem"
    ELSE "CorruptedFirstProposedBlockHeightNotItem"

\* C31: a read of an epoch field returns no value decoded from a malformed
\* element: an item of another length than the width of the field gives the
\* corrupted-length error of that field, an element that is no item gives
\* the not-an-item error of that field, a missing epoch path gives a
\* not-found error.
MalformedReadsReportTheirField ==
    epochRead.kind = "Some" =>
        LET read == epochRead.val
            path == <<PoolOfRead(read.op, read.index).key>>
            field == FieldOfRead(read.op)
        IN  IF ~PathExists(feePools, path) THEN IsNotFound(read.result)
            ELSE IF KeyOfField(field) \notin DOMAIN feePools.val[path[1]]
            THEN read.result.kind = "Err"
            ELSE LET element == feePools.val[path[1]][KeyOfField(field)]
                 IN  IF element.type # "Item"
                     THEN read.result = Err(NotItemErrorOf(field))
                     ELSE IF Len(element.value) # U64Limbs
                     THEN read.result = Err(LengthErrorOf(field))
                     ELSE read.result.kind = "Ok"

\* grove.get of the key of an epoch at FeePools::get_path() (lines 345-347)
grove_get_epoch(g, key) ==
    IF g.kind # "Some" THEN Err("PathNotFound")
    ELSE IF key \notin DOMAIN g.val THEN Err("PathKeyNotFound")
    ELSE [kind |-> "Ok", val |-> EmptyTree]

JustPaid(e) ==
    /\ epochCalls # <<>>
    /\ epochCalls[Len(epochCalls)].op = "mark_as_paid"
    /\ epochCalls[Len(epochCalls)].index = e
    /\ epochCalls[Len(epochCalls)].ok

\* C32: once mark_as_paid has succeeded on an initialised epoch pool, the
\* lookup of the key of the epoch under the fee-pools path fails with
\* PathKeyNotFound.
PaidEpochIsNotRetrievable ==
    \A e \in EpochIndexes :
        (JustPaid(e) /\ HasSucceeded("init_empty", e)) =>
            grove_get_epoch(feePools, EpochPoolNew(e).key)
                = Err("PathKeyNotFound")

\* the call that a step has just appended to the record of calls
CallMade == epochCalls'[Len(epochCalls')]

PathErrors == {"InvalidPath", "PathNotFound", "PathKeyNotFound"}

\* the outcome of the call a step makes, computed on the tree before it
OutcomeOfCall(call) ==
    LET pool == EpochPoolNew(call.index)
    IN  IF call.op = "init_empty"
        THEN init_empty(feePools, pool, TRUE)
        ELSE IF call.op = "update_start_block_height"
        THEN update_start_block_height(feePools, pool,
                                       call.args.start_block_height)
        ELSE IF call.op = "update_start_time"
        THEN update_start_time(feePools, pool, call.args.start_time)
        ELSE mark_as_paid(feePools, pool)

\* the epoch has no subtree; for init_empty, the fee-pools tree is missing
NotCreated(op, index) ==
    IF op = "init_empty" THEN ~PathExists(feePools, <<>>)
    ELSE ~PathExists(feePools, <<EpochPoolNew(index).key>>)

\* C33: on an epoch whose subtree has not been created (for init_empty: when
\* the fee-pools tree is missing) init_empty, update_start_block_height and
\* mark_as_paid return a path error of GroveDB and leave the tree as it was;
\* get_start_block_height and the read of the start time return a
\* path-not-found error.
UncreatedEpochCallsFail ==
    [][/\ (/\ Len(epochCalls') = Len(epochCalls) + 1
           /\ CallMade.op \in {"init_empty", "update_start_block_height",
                               "mark_as_paid"}
           /\ NotCreated(CallMade.op, CallMade.index))
          => /\ ~CallMade.ok
             /\ OutcomeOfCall(CallMade).kind = "Err"
             /\ OutcomeOfCall(CallMade).err \in PathErrors
             /\ feePools' = feePools
       /\ (/\ epochRead' # epochRead
           /\ epochRead'.kind = "Some"
           /\ ~PathExists(feePools, <<EpochPoolNew(epochRead'.val.index).key>>))
          => /\ epochRead'.val.result.kind = "Err"
             /\ epochRead'.val.result.err = "PathNotFound"]_vars

\* each of the three calls has failed on an epoch that was not created, and
\* a read of it has been answered
UncreatedEpochCallsFailWitness ==
    /\ feePools = Some([k \in {} |-> EmptySubtree])
    /\ Len(epochCalls) = 2
    /\ epochCalls[1].op = "update_start_block_height"
    /\ epochCalls[2].op = "mark_as_paid"
    /\ ~epochCalls[1].ok
    /\ ~epochCalls[2].ok
    /\ ReadOf("get_start_block_height", epochCalls[1].index)

UpdateOf(field) ==
    IF field = "start_time" THEN "update_start_time"
    ELSE "update_start_block_height"

ReadOpOf(field) ==
    IF field = "start_time" THEN "get_start_time"
    ELSE "get_start_block_height"

\* the calls that write the field of the epoch or create its subtree anew
WritesOf(field, e) ==
    {n \in 1..Len(epochCalls) :
        /\ epochCalls[n].index = e
        /\ epochCalls[n].op \in {UpdateOf(field), "init_empty"}}

LastOf(calls) == CHOOSE n \in calls : \A m \in calls : m <= n

ValueWritten(field, call) ==
    IF field = "start_time" THEN call.args.start_time
    ELSE call.args.start_block_height

\* C34: once an update of the start time (of the start block height) with v
\* has succeeded on an existing epoch, a read of that field returns v, as
\* long as the field has not been written again or deleted.
FieldReadsReturnLastUpdate ==
    \A e \in EpochIndexes, field \in {"start_time", "start_block_height"} :
        (/\ ReadOf(ReadOpOf(field), e)
         /\ WritesOf(field, e) # {}
         /\ epochCalls[LastOf(WritesOf(field, e))].op = UpdateOf(field)
         /\ epochCalls[LastOf(WritesOf(field, e))].ok)
        => epochRead.val.result
              = [kind |-> "Ok",
                 val |-> ValueWritten(field,
                            epochCalls[LastOf(WritesOf(field, e))])]

\* a negative start time is read back after the other field of the same
\* epoch was written
FieldReadsReturnLastUpdateWitness ==
    \E e \in EpochIndexes :
        /\ Len(epochCalls) = 3
        /\ epochCalls[2].op = "update_start_time"
        /\ epochCalls[2].index = e
        /\ epochCalls[2].args.start_time < 0
        /\ epochCalls[3].op = "update_start_block_height"
        /\ epochCalls[3].index = e
        /\ epochCalls[3].ok
        /\ ReadOf("get_start_time", e)
        /\ epochRead.val.result = [kind |-> "Ok", val |-> -2]

\* the low-level operations of the first n high-level operations of the
\* call, each lowered on its own against the backend as the call found it,
\* one group after the other
LoweredGroups(n) ==
    [i \in 1..n |->
        DriveOperationType_to_drive_operations(driveCall.operations[i],
                                               driveCall.before)]

RECURSIVE GroupsInOrder(_, _)
GroupsInOrder(groups, n) ==
    IF n = 0 THEN <<>> ELSE GroupsInOrder(groups, n - 1) \o groups[n].val

\* C35: the batch apply_drive_operations hands to the backend is the
\* low-level operations grouped by high-level operation, the groups in the
\* order the high-level operations were given and each group in the order its
\* lowering produced it: nothing reordered, dropped or duplicated.
HandedBatchKeepsOrder ==
    (DriveCallReturned /\ driveCall.outcome.val.handed.kind = "Some") =>
        driveCall.outcome.val.handed.val
            = GroupsInOrder(LoweredGroups(Len(driveCall.operations)),
                            Len(driveCall.operations))

\* two high-level operations lowered to different groups, the first to more
\* than one low-level operation, were handed over as one batch
HandedBatchKeepsOrderWitness ==
    /\ DriveCallReturned
    /\ driveCall.outcome.val.handed.kind = "Some"
    /\ Len(driveCall.operations) = 2
    /\ Len(LoweredGroups(2)[1].val) = 2
    /\ Len(LoweredGroups(2)[2].val) >= 1
    /\ LoweredGroups(2)[2].val[1] \notin
          {LoweredGroups(2)[1].val[k] : k \in 1..2}
    /\ Len(driveCall.outcome.val.handed.val) >= 3

\* the backend after the low-level operations of the first high-level
\* operation of the call, had they been applied on their own
AfterFirstLowering ==
    ApplyLowLevelOps(driveCall.before, driveCall.outcome.val.lowered[1].val)

\* C39: every high-level operation of one apply_drive_operations call is
\* lowered against the backend as it was before the call; no lowering sees
\* what an earlier operation of the call writes, the batch being applied
\* only once all lowerings are done.
LoweredAgainstStateBeforeCall ==
    DriveCallReturned =>
        \A i \in 1..Len(driveCall.outcome.val.lowered) :
            driveCall.outcome.val.lowered[i]
                = DriveOperationType_to_drive_operations(
                      driveCall.operations[i], driveCall.before)

\* the second operation of a call was lowered where the first one writes
\* something that lowering reads: lowered after the first write it would
\* have given another result
LoweredAgainstStateBeforeCallWitness ==
    /\ DriveCallReturned
    /\ driveCall.apply
    /\ Len(driveCall.outcome.val.lowered) = 2
    /\ driveCall.outcome.val.lowered[1].kind = "Ok"
    /\ AfterFirstLowering.kind = "Some"
    /\ DriveOperationType_to_drive_operations(driveCall.operations[2],
                                              AfterFirstLowering.val)
          # driveCall.outcome.val.lowered[2]
    /\ driveCall.outcome.val.lowered[2].kind = "Ok"

\* the UndefinedIndexProperty errors for a property of the index at position
\* i of the document type at position n
UndefinedPropertyErrors(n, i, property_name) ==
    LET hit(e) ==
            /\ e.code = "UndefinedIndexPropertyError"
            /\ e.document_type = rawDataContract.val.documents[n].document_type
            /\ e.index_definition =
                  rawDataContract.val.documents[n].indices.val[i].name
            /\ e.property_name = property_name
    IN  ContractErrors(hit)

\* the undefined properties of the index at position i of the document type
\* at position n
UndefinedProperties(n, i) ==
    LET document_schema == rawDataContract.val.documents[n]
        fields == document_schema.indices.val[i].properties
    IN  {fields[f] : f \in 1..Len(fields)} \ DOMAIN document_schema.properties

\* the first index of the document type at position n that names an
\* undefined property, 0 when there is none
FirstUndefinedIndex(n) ==
    LET document_schema == rawDataContract.val.documents[n]
        undefined ==
            IF document_schema.indices.kind = "None" THEN {}
            ELSE {i \in 1..Len(document_schema.indices.val) :
                     UndefinedProperties(n, i) # {}}
    IN  IF undefined = {} THEN 0
        ELSE CHOOSE i \in undefined : \A j \in undefined : i <= j

SchemaStagesPassed ==
    LET rejected(e) == e.code = "JsonSchemaError"
    IN  ContractValidated /\ ContractErrors(rejected) = {}

\* C36: validate adds an UndefinedIndexProperty error for every index
\* property, the user-defined ones included, that is not defined in the
\* schema of its document type, and the return that follows skips only the
\* remaining index checks of that document type: every document type gets
\* the errors of its first index with undefined properties, and a later
\* document type with more than 3 unique indices still gets its
\* UniqueIndicesLimitReached error.
UndefinedIndexPropertiesReported ==
    SchemaStagesPassed =>
        \A n \in 1..Len(rawDataContract.val.documents) :
            /\ FirstUndefinedIndex(n) # 0 =>
                  \A property_name \in
                        UndefinedProperties(n, FirstUndefinedIndex(n)) :
                      UndefinedPropertyErrors(n, FirstUndefinedIndex(n),
                                              property_name) # {}
            /\ UniqueIndexCount(n) > UNIQUE_INDEX_LIMIT =>
                  LimitReachedErrors(n) # {}

\* the indexed array properties: document type position, index position and
\* property name
IndexedArrays ==
    {t \in (1..2) \X (1..(MaxUniqueIndices + 2)) \X {"$ownerId", "a", "b"} :
        /\ t[1] <= Len(rawDataContract.val.documents)
        /\ LET document_schema == rawDataContract.val.documents[t[1]]
           IN  /\ document_schema.indices.kind = "Some"
               /\ t[2] <= Len(document_schema.indices.val)
               /\ \E i \in 1..Len(document_schema.indices.val[t[2]].properties) :
                     document_schema.indices.val[t[2]].properties[i] = t[3]
               /\ t[3] \in DOMAIN document_schema.properties
               /\ document_schema.properties[t[3]].type = "array"}

\* the bound on maxItems of an array definition
MaxItemsBound(property_definition) ==
    IF property_definition.byteArray THEN 255 ELSE 1024

MaxItemsErrors(t) ==
    LET hit(e) ==
            /\ e.code = "InvalidIndexedPropertyConstraintError"
            /\ e.document_type =
                  rawDataContract.val.documents[t[1]].document_type
            /\ e.index_definition =
                  rawDataContract.val.documents[t[1]].indices.val[t[2]].name
            /\ e.property_name = t[3]
    IN  ContractErrors(hit)

\* C37: for every indexed array property validate adds an
\* InvalidIndexedPropertyConstraint error exactly when maxItems is absent or
\* above the bound, 255 for a byte array and 1024 for another array: 255 and
\* 1024 are accepted, 256 and 1025 rejected.
IndexedArraysAreBounded ==
    IndexChecksCompleted =>
        \A t \in IndexedArrays :
            LET property_definition ==
                    rawDataContract.val.documents[t[1]].properties[t[3]]
            IN  MaxItemsErrors(t) # {}
                    <=> \/ property_definition.maxItems = None
                        \/ property_definition.maxItems.val
                              > MaxItemsBound(property_definition)

\* C38: the record an application enqueues carries index c + 1, c being the
\* latest index of the withdrawal queue at the moment of the enqueue: no
\* enqueue of another application falls between the read of the counter and
\* the enqueue, so no two applications enqueue records of the same index.
EnqueuedIndexFollowsCounter ==
    [][\A a \in Applications :
          (/\ applications[a].pc = "enqueue"
           /\ applications'[a].pc = "fetch_identity")
          => LET c == fetch_latest_withdrawal_transaction_index(withdrawalQueue)
             IN  /\ applications[a].latest_withdrawal_index = c
                 /\ DOMAIN withdrawalQueue'
                       = DOMAIN withdrawalQueue \cup {c + 1}
                 /\ withdrawalQueue'[c + 1].by = a]_vars

\* C40: for every IdentityKey k, whatever the length of its public key
\* bytes, keys shorter than 32 bytes included,
\* IdentityKey::from_bytes(k.serialize()) returns Ok(k).
KeyRoundTrips ==
    keyResult # None =>
        keyResult.val = [kind |-> "Ok", val |-> identityKey.val]

=============================================================================
